---------------------------- MODULE Spec2Model ----------------------------
(***************************************************************************)
(* Model of the prediction backend of sports_predictions:                  *)
(*   - services/cache.py     the TTL cache with batched disk persistence    *)
(*   - app.py                the warm-up task and the prediction endpoints  *)
(*   - predict.py            predict_game / predict_all_games               *)
(*   - predict_player.py     create_player_features / predict_player_points *)
(*   - feature_engineering.py  compute_elo_ratings / create_features        *)
(* Each subsystem has its own specification (SpecCache, SpecServe, ...);    *)
(* the variables of the other subsystems stay at their initial values.      *)
(***************************************************************************)
EXTENDS Integers, Sequences, FiniteSets, TLC

VARIABLES
    \* ---- services/cache.py ----
    memory_caches,   \* _memory_caches: loaded namespace -> (key -> entry)
    dirty_caches,    \* _dirty_caches: set of namespaces modified since the last flush
    disk,            \* the namespace files
    save_pending,    \* caches_to_save of a running _save_dirty_caches
    clock,           \* time.time()
    ret,             \* the cache call that has just returned, and its return value
    last_set,        \* arguments and time of the last cache_set per (namespace, key)
    n_sets,          \* number of cache_set calls so far
    \* ---- app.py / predict.py: warm-up and the per-game prediction endpoint ----
    warmup_complete, \* _warmup_complete (threading.Event)
    warmup_error,    \* _warmup_error
    warm_pc,         \* position of the warm-up thread in _run_warmup
    req,             \* the request being served by predictions(gameid, teamid)
    FEATURE_NAMES,   \* feature names the loaded game models expect
    valid_teams,     \* teams that have a valid (NaN-free) historical feature row
    warm_raised,     \* whether predict_all_games raised in the warm-up thread
    status_req,      \* the request being served by prediction_status()
    \* ---- app.py: batch_player_predictions ----
    b_tokens,        \* player_ids.split(","): the tokens, 0 for a blank one
    b_kind,          \* how predict_player_points ends for a player id
    b_pc,            \* position of the handler
    b_queued,        \* number of tasks handed to a worker so far
    b_running,       \* indexes of the tasks a worker is running
    b_results,       \* what each finished get_prediction returned
    b_resp,          \* the response of the handler
    \* ---- predict_player.py: predict_player_points ----
    p_player,        \* the player_id argument
    p_frame,         \* the frame get_player returns for the player
    PLAYER_FEATURE_NAMES, \* the feature names the player model was trained on
    p_pc,            \* position of predict_player_points
    p_features,      \* the frame create_player_features returned, if it was called
    p_result,        \* what predict_player_points returned
    p_hist,          \* the last run of the expensive path and the number of runs
    \* ---- feature_engineering.py: create_features ----
    f_df,            \* the history frame passed to create_features
    f_injuries,      \* the injuries_df argument
    f_pc,            \* position of create_features
    f_own,           \* the per-team series computed from df, by index label
    f_out,           \* what create_features returned
    f_first,         \* the arguments and the result of the first call
    f_change,        \* how the arguments of the second call differ from the first
    \* ---- predict.py: the win-probability normalisation of one game ----
    raw_prob,        \* game_preds[i]["raw_prob"] of the two teams, as fractions
    win_probability, \* game_preds[i]["win_probability"], in thousandths
    \* ---- feature_engineering.py: the loop of compute_elo_ratings ----
    e_games,         \* game_df: the games sorted by date
    e_k,             \* the k_factor argument
    e_ha,            \* the home_advantage argument
    e_i,             \* number of games the loop has processed
    e_state,         \* elo_ratings, pre_game_elos and prev_season
    e_prev,          \* e_state before the last processed game
    \* ---- services/injury_features.py ----
    i_report,        \* the frame fetch_injuries returned
    i_rotation,      \* the frame get_rotation_players returned
    i_pc,            \* position of compute_team_injury_scores
    i_list,          \* injury_list
    i_result,        \* the frame compute_team_injury_scores returned
    i_call,          \* a direct call of get_player_importance_score and its result
    \* ---- predict.py / predict_player.py: the cache check across a date change ----
    d_call,          \* the call of a prediction function being served
    \* ---- predict.py: the body of predict_game / predict_all_games ----
    l_history,       \* the frame get_all_games_cached returned, sorted by team and date
    l_report,        \* the current injury report: whether the fetch worked, teams with a player out
    l_today,         \* today's game as <<home team, away team>>
    l_pc,            \* position in the prediction function
    l_features,      \* the frame create_features returned, by index label
    l_out,           \* game_preds and the total of the run
    l_first,         \* l_today and l_out of the first run
    \* ---- services/cache.py: threads, locks and the steps of a save ----
    t_pc,            \* position of every thread
    t_op,            \* the call a thread is in: its arguments and local variables
    t_global,        \* holder of _global_lock (0 when free)
    t_held,          \* the namespace locks that are held, as <<lock, thread>>
    t_registry,      \* keys of _cache_locks
    t_done,          \* number of calls a thread has finished
    t_flush,         \* per namespace: the file before its last save and the map pickled
    t_crashes        \* number of crashes so far

cacheVars == <<memory_caches, dirty_caches, disk, save_pending, clock, ret, last_set,
               n_sets>>

serveVars == <<warmup_complete, warmup_error, warm_pc, req, FEATURE_NAMES, valid_teams,
               warm_raised, status_req>>

batchVars == <<b_tokens, b_kind, b_pc, b_queued, b_running, b_results, b_resp>>

playerVars == <<p_player, p_frame, PLAYER_FEATURE_NAMES, p_pc, p_features, p_result,
                p_hist>>

featVars == <<f_df, f_injuries, f_pc, f_own, f_out, f_first, f_change>>

normVars == <<raw_prob, win_probability>>

\* The variables of the pure calculations.
eloVars == <<e_games, e_k, e_ha, e_i, e_state, e_prev>>

injVars == <<i_report, i_rotation, i_pc, i_list, i_result, i_call>>

dayVars == <<d_call>>

\* The variables of the later sections.
liveVars == <<l_history, l_report, l_today, l_pc, l_features, l_out, l_first>>

threadVars == <<t_pc, t_op, t_global, t_held, t_registry, t_done, t_flush, t_crashes>>

lateVars == <<dayVars, liveVars, threadVars>>

calcVars == <<normVars, eloVars, injVars, lateVars>>

\* What the cache check of a prediction function leaves alone, the cache aside.
statefulRest == <<serveVars, batchVars, playerVars, featVars, normVars, eloVars, injVars>>

\* What each calculation leaves alone.
statefulVars == <<cacheVars, serveVars, batchVars, playerVars, featVars>>
normRest == <<statefulVars, eloVars, injVars, lateVars>>
eloRest == <<statefulVars, normVars, injVars, lateVars>>
injRest == <<statefulVars, normVars, eloVars, lateVars>>

vars == <<cacheVars, serveVars, batchVars, playerVars, featVars, calcVars>>

\* What the cache's own operations leave alone.
nonCacheVars == <<serveVars, batchVars, playerVars, featVars, calcVars>>

-----------------------------------------------------------------------------
(***************************************************************************)
(* services/cache.py                                                       *)
(***************************************************************************)

\* Bounds of the cache model.
MaxClock == 2
MaxTTL == 1
MaxSets == 2

PREDICTION_CACHE_PATH == "prediction_cache.pkl"
Namespaces == {PREDICTION_CACHE_PATH, "nba_api_cache.pkl"}
Keys == {"k1", "k2"}
\* Cached values are records; None is the record of a miss.
Values == {[kind |-> "v1"], [kind |-> "v2"]}
None == [kind |-> "None"]

\* ttl_seconds as passed by a caller; 0 stands for both None and 0 (both falsy).
TTLs == 0 .. MaxTTL

\* A dict restricted to the keys other than k (dict.pop(k, None)).
Pop(cache, k) == [x \in (DOMAIN cache) \ {k} |-> cache[x]]

\* A dict with d[k] = e.
Put(cache, k, e) == [x \in (DOMAIN cache) \cup {k} |-> IF x = k THEN e ELSE cache[x]]

EmptyDict == [x \in {} |-> None]

\* A namespace file: absent, unreadable, or a pickled dict.
NoFile == [state |-> "missing", data |-> EmptyDict]
CorruptFile == [state |-> "corrupt", data |-> EmptyDict]
File(cache) == [state |-> "ok", data |-> cache]

\* _load_cache_from_disk: a missing or unreadable file loads as the empty dict.
LoadCacheFromDisk(ns) ==
    IF disk[ns].state = "ok" THEN disk[ns].data ELSE EmptyDict

\* _get_memory_cache: the registry after the namespace was (lazily) loaded.
GetMemoryCache(ns) ==
    IF ns \in DOMAIN memory_caches
    THEN memory_caches
    ELSE Put(memory_caches, ns, LoadCacheFromDisk(ns))

\* expires_at of cache_set: time.time() + ttl_seconds if ttl_seconds else None.
\* None is the empty tuple, a time t is <<t>>.
ExpiresAt(now, ttl) == IF ttl # 0 THEN <<now + ttl>> ELSE <<>>

\* A mutant of Expired: the entry already counts as expired at the expiry instant.
ExpiredAtInstant(entry, now) ==
    entry.expires_at # <<>> /\ now >= entry.expires_at[1]

\* cache_get's test: expires_at is not None and time.time() > expires_at.
Expired(entry, now) ==
    entry.expires_at # <<>> /\ now > entry.expires_at[1]

\* The value cache_get returns for key k of the (loaded) dict cache at time now.
CacheGetValue(cache, k, now) ==
    IF k \notin DOMAIN cache THEN None
    ELSE IF Expired(cache[k], now) THEN None
    ELSE cache[k].value

\* The dict after cache_get: an expired entry is popped.
CacheGetDict(cache, k, now) ==
    IF k \in DOMAIN cache /\ Expired(cache[k], now) THEN Pop(cache, k) ELSE cache

\* Whether cache_get marks the namespace dirty (it popped an entry).
CacheGetDirties(cache, k, now) == k \in DOMAIN cache /\ Expired(cache[k], now)

\* _cleanup_expired: the dict without its expired entries.  No function of the
\* program calls it.
CleanupExpired(cache, now) ==
    [x \in {y \in DOMAIN cache : ~Expired(cache[y], now)} |-> cache[x]]

\* A mutant of CacheSetDict: cache_set sweeps the expired entries first.
CacheSetDictSweeping(cache, k, v, ttl, now) ==
    Put(CleanupExpired(cache, now), k, [expires_at |-> ExpiresAt(now, ttl), value |-> v])

\* The dict after cache_set.
CacheSetDict(cache, k, v, ttl, now) ==
    Put(cache, k, [expires_at |-> ExpiresAt(now, ttl), value |-> v])

NoSet == <<>>
NoRet == [op |-> "none", ns |-> None, key |-> None, value |-> None]

cache_get(ns, k) ==
    LET reg == GetMemoryCache(ns)
        cache == reg[ns]
    IN  /\ memory_caches' = [reg EXCEPT ![ns] = CacheGetDict(cache, k, clock)]
        /\ dirty_caches' = IF CacheGetDirties(cache, k, clock)
                           THEN dirty_caches \cup {ns} ELSE dirty_caches
        /\ ret' = [op |-> "get", ns |-> ns, key |-> k,
                   value |-> CacheGetValue(cache, k, clock)]
        /\ UNCHANGED <<disk, save_pending, clock, last_set, n_sets, nonCacheVars>>

cache_set(ns, k, v, ttl) ==
    LET reg == GetMemoryCache(ns)
        cache == reg[ns]
    IN  /\ n_sets < MaxSets
        /\ n_sets' = n_sets + 1
        /\ memory_caches' = [reg EXCEPT ![ns] = CacheSetDict(cache, k, v, ttl, clock)]
        /\ dirty_caches' = dirty_caches \cup {ns}
        /\ ret' = [op |-> "set", ns |-> ns, key |-> k, value |-> None]
        /\ last_set' = [last_set EXCEPT ![ns][k] =
                          <<[value |-> v, at |-> clock, ttl |-> ttl]>>]
        /\ UNCHANGED <<disk, save_pending, clock, nonCacheVars>>

\* A mutant of CachesToSave: the flush takes every loaded namespace.
AllLoadedCaches(dirty) == DOMAIN memory_caches

\* caches_to_save = list(_dirty_caches)
CachesToSave(dirty) == dirty

\* _save_dirty_caches, first half: take the dirty set and clear it
\* (under the global lock).  Runs from the 30 s timer and from force_save_all.
save_dirty_caches ==
    /\ save_pending = {}
    /\ save_pending' = CachesToSave(dirty_caches)
    /\ dirty_caches' = {}
    /\ ret' = [op |-> "flush", ns |-> None, key |-> None, value |-> None]
    /\ UNCHANGED <<memory_caches, disk, clock, last_set, n_sets, nonCacheVars>>

\* _save_cache_to_disk of one namespace taken by the flush: the dict is pickled
\* to a temp file that replaces the namespace file; a failure is only logged.
save_cache_to_disk(ns, ok) ==
    /\ ns \in save_pending
    /\ save_pending' = save_pending \ {ns}
    /\ disk' = IF ok
               THEN [disk EXCEPT ![ns] =
                       File(IF ns \in DOMAIN memory_caches
                            THEN memory_caches[ns] ELSE EmptyDict)]
               ELSE disk
    /\ ret' = [op |-> "save", ns |-> ns, key |-> None, value |-> None]
    /\ UNCHANGED <<memory_caches, dirty_caches, clock, last_set, n_sets, nonCacheVars>>

\* The clock advances.
Tick ==
    /\ clock < MaxClock
    /\ clock' = clock + 1
    /\ ret' = NoRet
    /\ UNCHANGED <<memory_caches, dirty_caches, disk, save_pending, last_set, n_sets,
                   nonCacheVars>>

\* A file left by an earlier run of the process: one entry that expires at time 1.
OldFile == File(Put(EmptyDict, "k1", [expires_at |-> <<1>>, value |-> [kind |-> "v2"]]))

\* The other subsystems at rest.
IdleServe ==
    /\ warmup_complete = FALSE
    /\ warmup_error = None
    /\ warm_pc = "start"
    /\ req = [pc |-> "idle"]
    /\ FEATURE_NAMES = {}
    /\ valid_teams = {}
    /\ warm_raised = FALSE
    /\ status_req = [pc |-> "idle"]

IdleBatch ==
    /\ b_tokens = <<>>
    /\ b_kind = <<>>
    /\ b_pc = "idle"
    /\ b_queued = 0
    /\ b_running = {}
    /\ b_results = <<>>
    /\ b_resp = None

IdlePlayer ==
    /\ p_player = 0
    /\ p_frame = <<>>
    /\ PLAYER_FEATURE_NAMES = {}
    /\ p_pc = "idle"
    /\ p_features = <<>>
    /\ p_result = None
    /\ p_hist = None

IdleNorm ==
    /\ raw_prob = <<>>
    /\ win_probability = <<>>

IdleElo ==
    /\ e_games = <<>>
    /\ e_k = 0
    /\ e_ha = 0
    /\ e_i = 0
    /\ e_state = None
    /\ e_prev = None

IdleInj ==
    /\ i_report = <<>>
    /\ i_rotation = None
    /\ i_pc = "idle"
    /\ i_list = <<>>
    /\ i_result = None
    /\ i_call = None

IdleDay == d_call = [pc |-> "idle"]

IdleLive ==
    /\ l_history = <<>>
    /\ l_report = None
    /\ l_today = <<>>
    /\ l_pc = "idle"
    /\ l_features = <<>>
    /\ l_out = None
    /\ l_first = None

IdleThreads ==
    /\ t_pc = <<>>
    /\ t_op = <<>>
    /\ t_global = 0
    /\ t_held = {}
    /\ t_registry = {}
    /\ t_done = <<>>
    /\ t_flush = <<>>
    /\ t_crashes = 0

IdleLate == IdleDay /\ IdleLive /\ IdleThreads

IdleCalc == IdleNorm /\ IdleElo /\ IdleInj /\ IdleLate

IdleFeat ==
    /\ f_df = <<>>
    /\ f_injuries = None
    /\ f_pc = "idle"
    /\ f_own = <<>>
    /\ f_out = None
    /\ f_first = None
    /\ f_change = None

InitCache ==
    /\ IdleServe
    /\ IdleBatch
    /\ IdlePlayer
    /\ IdleFeat
    /\ IdleCalc
    /\ memory_caches = EmptyDict
    /\ dirty_caches = {}
    /\ disk \in {[ns \in Namespaces |-> IF ns = PREDICTION_CACHE_PATH THEN f ELSE NoFile] :
                    f \in {CorruptFile, OldFile}}
    /\ save_pending = {}
    /\ clock = 0
    /\ ret = NoRet
    /\ last_set = [ns \in Namespaces |-> [k \in Keys |-> NoSet]]
    /\ n_sets = 0

\* Callers of the cache as time passes.  The flush (save_dirty_caches,
\* save_cache_to_disk) writes only the files, which are read once per namespace,
\* so it is left to the persistence specification.
NextCache ==
    \/ \E ns \in Namespaces, k \in Keys : cache_get(ns, k)
    \/ \E ns \in Namespaces, k \in Keys, v \in Values, ttl \in TTLs :
          cache_set(ns, k, v, ttl)
    \/ Tick

SpecCache == InitCache /\ [][NextCache]_vars

-----------------------------------------------------------------------------
\* C1: after cache_set(ns, key, v, ttl_seconds = t) with t > 0 and no later
\* cache_set on that key, cache_get(ns, key) returns v at every clock time up to
\* the expiry instant (set time + t) and a miss (None) at every time after it.
C1_TtlHitThenMiss ==
    (ret.op = "get" /\ last_set[ret.ns][ret.key] # NoSet) =>
        LET s == last_set[ret.ns][ret.key][1]
        IN  s.ttl > 0 =>
              IF clock <= s.at + s.ttl
              THEN ret.value = s.value
              ELSE ret.value = None

\* A get after the expiry instant of a set with a positive TTL returned a miss.
C1_Witness ==
    /\ ret.op = "get"
    /\ last_set[ret.ns][ret.key] # NoSet
    /\ last_set[ret.ns][ret.key][1].ttl > 0
    /\ clock > last_set[ret.ns][ret.key][1].at + last_set[ret.ns][ret.key][1].ttl
    /\ ret.value = None

-----------------------------------------------------------------------------
(***************************************************************************)
(* app.py and predict.py: the warm-up thread and the per-game endpoint     *)
(***************************************************************************)

PREDICTION_TTL_SECONDS == 1800
ALL_GAMES_PRED_TTL_SECONDS == 600

\* date.today().isoformat()
Today == "2026-01-15"

\* get_today_games(): today's scoreboard, one game, home team 1 against team 2.
Slate == {"g1"}
HomeTeam == [g \in Slate |-> 1]
AwayTeam == [g \in Slate |-> 2]
SlateTeams(g) == {HomeTeam[g], AwayTeam[g]}

\* What a client may ask for: a game that is or is not on the slate, a team that
\* does or does not play in it.
GameIds == {"g1", "g2"}
TeamIds == {1, 2, 3}

\* Columns create_features produces (a sample of them), and the feature lists a
\* model artifact may have been trained with.
GameColumns == {"elo", "pts_avg_5", "win_pct_5"}
FeatureLists == {{"elo", "pts_avg_5"}, {"elo", "legacy_feature"}}

\* f"predict_game:{date.today().isoformat()}:{gameid}:{teamid}"
PredictGameKey(g, t) == <<"predict_game", Today, g, t>>

\* f"predict_all_games:{date.today().isoformat()}"
PredictAllGamesKey == <<"predict_all_games", Today>>

WarmingUp == [status |-> "warming_up"]
ServerError == [status |-> "error"]

\* The result record predict_game builds for the requested team.
GameResult(g, t) == [kind |-> "game", game_id |-> g, team_id |-> t]

\* The list predict_all_games builds: one record per game with both teams valid.
AllPredictions ==
    [kind |-> "all_games",
     games |-> {g \in Slate : SlateTeams(g) \subseteq valid_teams}]

\* set(FEATURE_NAMES) - set(features.columns)
MissingFeatures(names, columns) == names \ columns

\* What predict_game returns after the feature check (predict.py 114-170): None
\* unless the game is on the slate, both its teams have a valid row and the
\* requested team is one of the two.
PredictGameOutcome(g, t) ==
    IF g \notin Slate THEN None
    ELSE IF ~(SlateTeams(g) \subseteq valid_teams) THEN None
    ELSE IF t \notin SlateTeams(g) THEN None
    ELSE GameResult(g, t)

\* The dict of the prediction namespace (loaded on first use).
PredCache == GetMemoryCache(PREDICTION_CACHE_PATH)[PREDICTION_CACHE_PATH]

\* cache_get on the prediction namespace, as part of a larger step.
PredCacheGet(k) ==
    /\ memory_caches' = [GetMemoryCache(PREDICTION_CACHE_PATH) EXCEPT
                           ![PREDICTION_CACHE_PATH] = CacheGetDict(PredCache, k, clock)]
    /\ dirty_caches' = IF CacheGetDirties(PredCache, k, clock)
                       THEN dirty_caches \cup {PREDICTION_CACHE_PATH}
                       ELSE dirty_caches

\* cache_set on the prediction namespace, as part of a larger step.
PredCacheSet(k, v, ttl) ==
    /\ memory_caches' = [GetMemoryCache(PREDICTION_CACHE_PATH) EXCEPT
                           ![PREDICTION_CACHE_PATH] =
                               CacheSetDict(PredCache, k, v, ttl, clock)]
    /\ dirty_caches' = dirty_caches \cup {PREDICTION_CACHE_PATH}

servedCacheVars == <<disk, save_pending, clock, ret, last_set, n_sets, batchVars,
                     playerVars, featVars, calcVars>>

\* ---- _run_warmup (app.py 61-73) running predict_all_games (predict.py 176-248)

\* predict_all_games: the cache check on its own key.
WarmupCacheCheck ==
    /\ warm_pc = "start"
    /\ PredCacheGet(PredictAllGamesKey)
    /\ warm_pc' = IF CacheGetValue(PredCache, PredictAllGamesKey, clock) # None
                  THEN "finally" ELSE "compute"
    /\ UNCHANGED <<warmup_complete, warmup_error, req, FEATURE_NAMES, valid_teams,
                   warm_raised, status_req, servedCacheVars>>

\* predict_all_games: history fetch, feature build, feature-name check, inference
\* for every game of the slate, one cache_set of the whole list.  A failing fetch
\* or a feature mismatch raises into the except clause of _run_warmup.
WarmupCompute(fetch_fails) ==
    /\ warm_pc = "compute"
    /\ IF fetch_fails \/ MissingFeatures(FEATURE_NAMES, GameColumns) # {}
       THEN /\ warm_raised' = TRUE
            /\ warm_pc' = "except"
            /\ UNCHANGED <<memory_caches, dirty_caches>>
       ELSE /\ PredCacheSet(PredictAllGamesKey, AllPredictions,
                            ALL_GAMES_PRED_TTL_SECONDS)
            /\ warm_pc' = "finally"
            /\ UNCHANGED warm_raised
    /\ UNCHANGED <<warmup_complete, warmup_error, req, FEATURE_NAMES, valid_teams, status_req,
                   servedCacheVars>>

\* A mutant of RecordedError: the except clause records nothing.
ErrorDropped(e) == None

\* _warmup_error = str(e) (app.py 69)
RecordedError(e) == e

\* except Exception as e: the error is recorded.
WarmupExcept ==
    /\ warm_pc = "except"
    /\ warmup_error' = RecordedError([kind |-> "error"])
    /\ warm_pc' = "finally"
    /\ UNCHANGED <<warmup_complete, req, FEATURE_NAMES, valid_teams, warm_raised, status_req,
                   
                   cacheVars, batchVars, playerVars, featVars, calcVars>>

\* finally: _warmup_complete.set()
WarmupFinally ==
    /\ warm_pc = "finally"
    /\ warmup_complete' = TRUE
    /\ warm_pc' = "done"
    /\ UNCHANGED <<warmup_error, req, FEATURE_NAMES, valid_teams, warm_raised, status_req,
                   cacheVars, batchVars, playerVars, featVars, calcVars>>

\* ---- predictions(gameid, teamid) (app.py 169-184)

\* A request arrives.  after_warmup, hit, flag_seen, heavy and wrote record what
\* happened to this request.
RequestArrives(g, t) ==
    /\ req.pc \in {"idle", "done"}
    /\ req' = [pc |-> "cache_check", gameid |-> g, teamid |-> t, resp |-> None,
               after_warmup |-> (warm_pc = "done" /\ warmup_error = None),
               hit |-> FALSE, flag_seen |-> FALSE, heavy |-> FALSE, wrote |-> FALSE]
    /\ UNCHANGED <<warmup_complete, warmup_error, warm_pc, FEATURE_NAMES, valid_teams,
                   warm_raised, status_req, cacheVars, batchVars, playerVars, featVars, calcVars>>

\* The key the endpoint looks up (app.py 172).
EndpointKey(g, t) == PredictGameKey(g, t)

\* Fast path: cache_get on the endpoint's key; a hit is returned at once.
EndpointCacheCheck ==
    /\ req.pc = "cache_check"
    /\ LET k == EndpointKey(req.gameid, req.teamid)
           cached == CacheGetValue(PredCache, k, clock)
       IN  /\ PredCacheGet(k)
           /\ req' = IF cached # None
                     THEN [req EXCEPT !.pc = "done", !.resp = cached, !.hit = TRUE]
                     ELSE [req EXCEPT !.pc = "gate"]
    /\ UNCHANGED <<warmup_complete, warmup_error, warm_pc, FEATURE_NAMES, valid_teams,
                   warm_raised, status_req, servedCacheVars>>

\* A mutant of GateOpen: the handler never waits for the warm-up.
GateAlwaysOpen(flag) == TRUE

\* if not _warmup_complete.is_set(): return warming_up
GateOpen(flag) == flag

\* The warm-up gate after a miss.
EndpointGate ==
    /\ req.pc = "gate"
    /\ req' = IF GateOpen(warmup_complete)
              THEN [req EXCEPT !.pc = "predict_game", !.flag_seen = warmup_complete]
              ELSE [req EXCEPT !.pc = "done", !.resp = WarmingUp,
                               !.flag_seen = warmup_complete]
    /\ UNCHANGED <<warmup_complete, warmup_error, warm_pc, FEATURE_NAMES, valid_teams,
                   warm_raised, status_req, cacheVars, batchVars, playerVars, featVars, calcVars>>

\* predict_game (predict.py 89-93): its own cache check.
PredictGameCacheCheck ==
    /\ req.pc = "predict_game"
    /\ LET k == PredictGameKey(req.gameid, req.teamid)
           cached == CacheGetValue(PredCache, k, clock)
       IN  /\ PredCacheGet(k)
           /\ req' = IF cached # None
                     THEN [req EXCEPT !.pc = "done", !.resp = cached]
                     ELSE [req EXCEPT !.pc = "heavy"]
    /\ UNCHANGED <<warmup_complete, warmup_error, warm_pc, FEATURE_NAMES, valid_teams,
                   warm_raised, status_req, servedCacheVars>>

\* A mutant of CachesOutcome: predict_game caches whatever it returns.
CachesEveryOutcome(out) == TRUE

\* predict_game reaches its cache_set (line 167) only with a result; the returns
\* of lines 120, 145 and 170 come before it or after the loop that holds it.
CachesOutcome(out) == out # None

\* predict_game (predict.py 95-170): history fetch, feature build, feature-name
\* check, inference; a result is cached for 30 minutes, None is not cached, an
\* exception reaches the global exception handler.
PredictGameHeavy(fetch_fails) ==
    /\ req.pc = "heavy"
    /\ LET k == PredictGameKey(req.gameid, req.teamid)
           out == PredictGameOutcome(req.gameid, req.teamid)
       IN  IF fetch_fails \/ MissingFeatures(FEATURE_NAMES, GameColumns) # {}
           THEN /\ req' = [req EXCEPT !.pc = "done", !.resp = ServerError,
                                      !.heavy = TRUE]
                /\ UNCHANGED <<memory_caches, dirty_caches>>
           ELSE IF ~CachesOutcome(out)
           THEN /\ req' = [req EXCEPT !.pc = "done", !.resp = out, !.heavy = TRUE]
                /\ UNCHANGED <<memory_caches, dirty_caches>>
           ELSE /\ req' = [req EXCEPT !.pc = "done", !.resp = out, !.heavy = TRUE,
                                      !.wrote = TRUE]
                /\ PredCacheSet(k, out, PREDICTION_TTL_SECONDS)
    /\ UNCHANGED <<warmup_complete, warmup_error, warm_pc, FEATURE_NAMES, valid_teams,
                   warm_raised, status_req, servedCacheVars>>

\* A prediction file left by an earlier run of the process on the same day.
PersistedPredictions ==
    File(Put(EmptyDict, PredictGameKey("g1", 1),
             [expires_at |-> <<PREDICTION_TTL_SECONDS>>, value |-> GameResult("g1", 1)]))

InitServe ==
    /\ memory_caches = EmptyDict
    /\ dirty_caches = {}
    /\ disk \in {[ns \in Namespaces |-> IF ns = PREDICTION_CACHE_PATH THEN f ELSE NoFile] :
                    f \in {NoFile, PersistedPredictions}}
    /\ save_pending = {}
    /\ clock = 0
    /\ ret = NoRet
    /\ last_set = [ns \in Namespaces |-> [k \in Keys |-> NoSet]]
    /\ n_sets = 0
    /\ warmup_complete = FALSE
    /\ warmup_error = None
    /\ warm_pc = "start"
    /\ req = [pc |-> "idle"]
    /\ FEATURE_NAMES \in FeatureLists
    /\ valid_teams \in SUBSET {1, 2}
    /\ warm_raised = FALSE
    /\ status_req = [pc |-> "idle"]
    /\ IdleBatch
    /\ IdlePlayer
    /\ IdleFeat
    /\ IdleCalc

\* Requests are served within the TTLs of what the warm-up cached: the clock
\* stands still.
NextServe ==
    \/ WarmupCacheCheck
    \/ \E fetch_fails \in BOOLEAN : WarmupCompute(fetch_fails)
    \/ WarmupExcept
    \/ WarmupFinally
    \/ \E g \in GameIds, t \in TeamIds : RequestArrives(g, t)
    \/ EndpointCacheCheck
    \/ EndpointGate
    \/ PredictGameCacheCheck
    \/ \E fetch_fails \in BOOLEAN : PredictGameHeavy(fetch_fails)

SpecServe == InitServe /\ [][NextServe]_vars

\* The request has left the state it was created in.
Served == req.pc # "idle"

\* C2: when the per-game endpoint misses the cache and the warm-up flag is not
\* yet set, it answers warming_up at once and never runs predict_game (no heavy
\* computation, no cache write); a cache hit is returned whatever the flag is.
C2_WarmupGate ==
    Served =>
      /\ (req.pc = "done" /\ ~req.hit /\ ~req.flag_seen) => req.resp = WarmingUp
      /\ (req.resp = WarmingUp) => (~req.heavy /\ ~req.wrote /\ req.pc = "done")
      /\ (req.pc \in {"predict_game", "heavy"} \/ req.heavy) => req.flag_seen
      /\ req.hit =>
           /\ req.pc = "done"
           /\ req.resp = PredCache[EndpointKey(req.gameid, req.teamid)].value

\* A request that missed the cache while the warm-up was running was told to retry.
C2_Witness ==
    /\ Served
    /\ req.pc = "done"
    /\ ~req.hit
    /\ ~warmup_complete
    /\ req.resp = WarmingUp

\* C3: once the warm-up has completed without error, a request for a (game, team)
\* of today's slate is served as a cache hit on the key the endpoint looks up,
\* and the heavy computation of predict_game is not run on the request.
C3_WarmupServesSlate ==
    (/\ Served
     /\ req.after_warmup
     /\ req.gameid \in Slate
     /\ SlateTeams(req.gameid) \subseteq valid_teams
     /\ req.teamid \in SlateTeams(req.gameid)
     /\ req.pc # "cache_check")
    => (req.hit /\ ~req.heavy)

\* The requested game is not on today's slate, or fewer than two of its teams
\* have a valid feature row, or the requested team does not play in it.
NotFound(g, t) ==
    \/ g \notin Slate
    \/ ~(SlateTeams(g) \subseteq valid_teams)
    \/ t \notin SlateTeams(g)

StatusReadReady ==
    /\ status_req.pc \in {"idle", "done"}
    /\ status_req' = [pc |-> "read_error", ready |-> warmup_complete, error |-> None]
    /\ UNCHANGED <<warmup_complete, warmup_error, warm_pc, req, FEATURE_NAMES, valid_teams,
                   warm_raised, cacheVars, batchVars, playerVars, featVars, calcVars>>

\* "error": _warmup_error is evaluated next, and the dict is returned.
StatusReadError ==
    /\ status_req.pc = "read_error"
    /\ status_req' = [status_req EXCEPT !.pc = "done", !.error = warmup_error]
    /\ UNCHANGED <<warmup_complete, warmup_error, warm_pc, req, FEATURE_NAMES, valid_teams,
                   warm_raised, cacheVars, batchVars, playerVars, featVars, calcVars>>

WarmupStep ==
    \/ WarmupCacheCheck
    \/ \E fetch_fails \in BOOLEAN : WarmupCompute(fetch_fails)
    \/ WarmupExcept
    \/ WarmupFinally

NextWarm ==
    \/ NextServe
    \/ StatusReadReady
    \/ StatusReadError

\* The warm-up thread is started by lifespan and scheduled like any thread:
\* while it has a step to take (predict_all_games returns or raises), it takes it.
SpecWarm == InitServe /\ [][NextWarm]_vars /\ WF_vars(WarmupStep)

\* C22: the warm-up thread eventually sets the completion flag, whether
\* predict_all_games returned or raised; when it raised, the error is recorded
\* before the flag is set, so a status request that sees the flag set also sees
\* the error; the flag is never cleared, and no request is answered warming_up
\* once it is set.
C22_WarmupCompletes ==
    /\ <>[]warmup_complete
    /\ []((warmup_complete /\ warm_raised) => warmup_error # None)
    /\ []((status_req.pc = "done" /\ status_req.ready /\ warm_raised) =>
             status_req.error # None)
    /\ [][warmup_complete => warmup_complete']_vars
    /\ [][(warmup_complete /\ req'.pc = "done" /\ req'.resp = WarmingUp) =>
             (req.pc = "done" /\ req.resp = WarmingUp)]_vars

\* predict_all_games raised in the warm-up; a status request read ready = true
\* and then the recorded error.
C22_Witness ==
    /\ warm_raised
    /\ warmup_complete
    /\ status_req.pc = "done"
    /\ status_req.ready
    /\ status_req.error = [kind |-> "error"]

-----------------------------------------------------------------------------
(***************************************************************************)
(* app.py: batch_player_predictions                                        *)
(***************************************************************************)

\* Limit of the batch size (app.py 221-222).
BatchCap == 25

\* Bounds of the batch model: the longest token list, and the size of the
\* thread pool (MAX_WORKERS of the deployment).
MaxIds == 27
MAX_WORKERS == 2

Min(a, b) == IF a < b THEN a ELSE b

\* The idle part of the cache in the batch and feature specifications.
CacheAtRest ==
    /\ memory_caches = EmptyDict
    /\ dirty_caches = {}
    /\ disk = [ns \in Namespaces |-> NoFile]
    /\ save_pending = {}
    /\ clock = 0
    /\ ret = NoRet
    /\ last_set = [ns \in Namespaces |-> [k \in Keys |-> NoSet]]
    /\ n_sets = 0

\* ids = [pid.strip() for pid in player_ids.split(",") if pid.strip()]
StripIds(tokens) == SelectSeq(tokens, LAMBDA t : t # 0)

\* if len(ids) > 25: ids = ids[:25]
CapIds(ids) == IF Len(ids) > BatchCap THEN SubSeq(ids, 1, BatchCap) ELSE ids

\* The ids the handler processes.
BatchIds == CapIds(StripIds(b_tokens))

\* How predict_player_points, run on a worker, ends for a player id:
\*   "ok"      it returns a record with predicted_points
\*   "error"   it returns an error record (no data, too few games, or an
\*             exception caught by its own try/except)
\*   "raises"  the call raises into get_prediction
PlayerKinds == {"ok", "error", "raises"}
KindOf(pid) == b_kind[pid % 2]

\* result["predicted_points"] and result["error"] for a player id.
PointsOf(pid) == 10 + pid
ErrorOf(pid) == <<"Prediction failed", pid>>

PointsEntry(pid) == [points |-> PointsOf(pid)]
ErrorEntry(msg) == [error |-> msg]
Raised(pid) == [raised |-> pid]

\* A mutant of GetPrediction: no try/except around the worker call.
GetPredictionNoExcept(pid) ==
    IF KindOf(pid) = "ok" THEN PointsEntry(pid)
    ELSE IF KindOf(pid) = "error" THEN ErrorEntry(ErrorOf(pid))
    ELSE Raised(pid)

\* get_prediction (app.py 227-236): the value paired with pid.
GetPrediction(pid) ==
    IF KindOf(pid) = "ok" THEN PointsEntry(pid)
    ELSE IF KindOf(pid) = "error" THEN ErrorEntry(ErrorOf(pid))
    ELSE ErrorEntry(<<"exception", pid>>)

\* predictions = {pid: value for pid, value in results}: the last pair of a
\* repeated id wins.
LastIndexOf(ids, pid) ==
    CHOOSE i \in 1 .. Len(ids) :
        ids[i] = pid /\ \A j \in (i + 1) .. Len(ids) : ids[j] # pid
PredictionsDict(ids, results) ==
    [pid \in {ids[i] : i \in 1 .. Len(ids)} |-> results[LastIndexOf(ids, pid)]]

\* The handler up to asyncio.gather: every task is handed to the pool, whose
\* workers take them in order.
BatchStart ==
    /\ b_pc = "start"
    /\ IF BatchIds = <<>>
       THEN /\ b_resp' = [error |-> "No player IDs provided", predictions |-> <<>>]
            /\ b_pc' = "done"
            /\ UNCHANGED <<b_queued, b_running>>
       ELSE /\ b_pc' = "gather"
            /\ b_queued' = Min(MAX_WORKERS, Len(BatchIds))
            /\ b_running' = 1 .. Min(MAX_WORKERS, Len(BatchIds))
            /\ UNCHANGED b_resp
    /\ UNCHANGED <<b_tokens, b_kind, b_results, cacheVars, serveVars, playerVars, featVars, calcVars>>

\* A running task finishes; its worker takes the next queued task.
TaskFinish(i) ==
    /\ b_pc = "gather"
    /\ i \in b_running
    /\ b_results' = [j \in (DOMAIN b_results) \cup {i} |->
                        IF j = i THEN GetPrediction(BatchIds[i]) ELSE b_results[j]]
    /\ IF b_queued < Len(BatchIds)
       THEN /\ b_queued' = b_queued + 1
            /\ b_running' = (b_running \ {i}) \cup {b_queued + 1}
       ELSE /\ b_running' = b_running \ {i}
            /\ UNCHANGED b_queued
    /\ UNCHANGED <<b_tokens, b_kind, b_pc, b_resp, cacheVars, serveVars, playerVars, featVars, calcVars>>

\* await asyncio.gather(*tasks) returns once every task is done; an exception
\* of a task would propagate out of the handler.
BatchGather ==
    /\ b_pc = "gather"
    /\ b_running = {}
    /\ DOMAIN b_results = 1 .. Len(BatchIds)
    /\ b_resp' = IF \E i \in DOMAIN b_results : "raised" \in DOMAIN b_results[i]
                 THEN ServerError
                 ELSE [predictions |-> PredictionsDict(BatchIds, b_results)]
    /\ b_pc' = "done"
    /\ UNCHANGED <<b_tokens, b_kind, b_queued, b_running, b_results, cacheVars,
                   serveVars, playerVars, featVars, calcVars>>

\* The token list: n tokens, ids repeating with period m, one token blank.
TokenList(n, m, blank) ==
    [i \in 1 .. n |-> IF i = blank THEN 0 ELSE ((i - 1) % m) + 1]

\* The requests: all ids distinct and the second token blank, or two ids
\* repeated.
TokenShapes == {<<MaxIds + 1, 2>>, <<2, 0>>}

InitBatch ==
    /\ CacheAtRest
    /\ IdleServe
    /\ IdlePlayer
    /\ IdleFeat
    /\ IdleCalc
    /\ \E n \in 0 .. MaxIds, shape \in TokenShapes :
          b_tokens = TokenList(n, shape[1], shape[2])
    /\ b_kind \in [{0, 1} -> PlayerKinds]
    /\ b_pc = "start"
    /\ b_queued = 0
    /\ b_running = {}
    /\ b_results = <<>>
    /\ b_resp = None

NextBatch ==
    \/ BatchStart
    \/ \E i \in 1 .. BatchCap : TaskFinish(i)
    \/ BatchGather

SpecBatch == InitBatch /\ [][NextBatch]_vars

\* The set of ids the handler has to answer for.
ProcessedIds == {BatchIds[i] : i \in 1 .. Len(BatchIds)}

\* C10: the batch endpoint processes at most the first 25 of the supplied ids;
\* its result map has exactly one entry per processed id, each the predicted
\* points or an {error} record; a failing id (error result or exception) never
\* aborts the batch and never changes the entry of another id.
C10_BatchIsolation ==
    /\ Len(BatchIds) <= BatchCap
    /\ \A i \in 1 .. Len(BatchIds) : BatchIds[i] = StripIds(b_tokens)[i]
    /\ b_pc = "done" =>
         /\ "predictions" \in DOMAIN b_resp
         /\ DOMAIN b_resp.predictions = ProcessedIds
         /\ \A pid \in ProcessedIds :
              LET e == b_resp.predictions[pid]
              IN  /\ KindOf(pid) = "ok" => e = PointsEntry(pid)
                  /\ KindOf(pid) # "ok" => DOMAIN e = {"error"}

\* A finished batch of more than 25 ids in which an id failed and another did not.
C10_Witness ==
    /\ b_pc = "done"
    /\ Len(StripIds(b_tokens)) > BatchCap
    /\ \E p, q \in ProcessedIds : KindOf(p) = "raises" /\ KindOf(q) = "ok"
    /\ \E i \in 1 .. Len(StripIds(b_tokens)) : StripIds(b_tokens)[i] \notin ProcessedIds

-----------------------------------------------------------------------------
(***************************************************************************)
(* predict_player.py: create_player_features and predict_player_points     *)
(***************************************************************************)

\* Bound of the player model: the longest game log.
MaxGames == 6

PREDICTION_ERROR_TTL_SECONDS == 300

\* A cell of a frame: NaN is the empty tuple, a number is a one-tuple.  Numbers
\* are rationals held as integers, in units of 1/Scale.
NaN == <<>>
Num(v) == <<v>>
Scale == 100800

Max(a, b) == IF a > b THEN a ELSE b

RECURSIVE SumSeq(_)
SumSeq(q) == IF q = <<>> THEN 0 ELSE Head(q) + SumSeq(Tail(q))

\* The observations of x.shift(1).rolling(w) at a row: the last w of the
\* values before it.
LastN(vals, w) == SubSeq(vals, Max(1, Len(vals) - w + 1), Len(vals))

\* x.shift(1).rolling(w, min_periods=mp).mean() at a row whose earlier values
\* are vals.
RollingMean(vals, w, mp) ==
    LET win == LastN(vals, w)
    IN  IF Len(win) < mp THEN NaN ELSE Num(SumSeq(win) \div Len(win))

\* x.shift(1).rolling(w, min_periods=mp).std() at a row whose earlier values are
\* vals (whole numbers).  The cell holds the sample variance, the square of
\* the standard deviation.
RollingStd(vals, w, mp) ==
    LET win == LastN(vals, w)
        n == Len(win)
        sum == SumSeq(win)
        squares == SumSeq([i \in 1 .. n |-> win[i] * win[i]])
    IN  IF n < mp THEN NaN
        ELSE Num((n * squares - sum * sum) * (Scale \div (n * (n - 1))))

\* short - long on two cells.
Minus(a, b) == IF a = NaN \/ b = NaN THEN NaN ELSE Num(a[1] - b[1])

\* fillna(0) on a cell.
FillNa(c) == IF c = NaN THEN Num(0) ELSE c

\* .clip(lo, hi)
Clip(v, lo, hi) == IF v < lo THEN lo ELSE IF v > hi THEN hi ELSE v

\* sort_values on GAME_DATE: the rows keep their index labels.
RECURSIVE SortByDate(_)
SortByDate(rows) ==
    IF rows = {} THEN <<>>
    ELSE LET first == CHOOSE r \in rows : \A q \in rows : r.GAME_DATE <= q.GAME_DATE
         IN  <<first>> \o SortByDate(rows \ {first})

RECURSIVE SortInts(_)
SortInts(S) ==
    IF S = {} THEN <<>>
    ELSE LET first == CHOOSE x \in S : \A y \in S : x <= y
         IN  <<first>> \o SortInts(S \ {first})

\* df.groupby("PLAYER_ID"): the rows of row p's player before it, in frame order.
Prior(rows, p) ==
    SelectSeq(SubSeq(rows, 1, p - 1), LAMBDA r : r.PLAYER_ID = rows[p].PLAYER_ID)

\* A stat column of some rows.
Col(rs, stat) == [i \in 1 .. Len(rs) |-> rs[i][stat] * Scale]

\* features[f"{stat.lower()}_avg_5"]
StatAvg5(rows, p, stat) == RollingMean(Col(Prior(rows, p), stat), 5, 3)

\* features[f"{stat.lower()}_trend"]
StatTrend(rows, p, stat) ==
    Minus(RollingMean(Col(Prior(rows, p), stat), 3, 2),
          RollingMean(Col(Prior(rows, p), stat), 10, 5))

\* features["min_consistency"]
MinConsistency(rows, p) ==
    LET pr == Prior(rows, p)
    IN  RollingStd([i \in 1 .. Len(pr) |-> pr[i].MIN], 5, 3)

\* df["usage_proxy"] = df["FGA"] / (df["MIN"] + 1)
UsageProxy(r) == (r.FGA * Scale) \div (r.MIN + 1)

\* features["usage_avg_5"]
UsageAvg5(rows, p) ==
    LET pr == Prior(rows, p)
    IN  RollingMean([i \in 1 .. Len(pr) |-> UsageProxy(pr[i])], 5, 3)

\* features["rest_days"]
RestDays(rows, p) ==
    LET pr == Prior(rows, p)
    IN  IF pr = <<>> THEN Num(3 * Scale)
        ELSE Num(Clip(rows[p].GAME_DATE - pr[Len(pr)].GAME_DATE, 0, 7) * Scale)

\* features["is_home"]
IsHome(r) == Num(IF r.MATCHUP = "vs." THEN Scale ELSE 0)

RECURSIVE SumPts(_, _)
SumPts(rows, P) ==
    IF P = {} THEN 0
    ELSE LET p == CHOOSE x \in P : TRUE
         IN  rows[p].PTS * Scale + SumPts(rows, P \ {p})

\* df.groupby([key, "GAME_DATE"]): the rows of one group.
GroupOf(rows, key, k, d) ==
    {p \in 1 .. Len(rows) : rows[p][key] = k /\ rows[p].GAME_DATE = d}

\* The dates of key value k before date d, ascending (sort_values, then shift(1)).
PriorDates(rows, key, k, d) ==
    SortInts({rows[p].GAME_DATE : p \in {x \in 1 .. Len(rows) :
                  rows[x][key] = k /\ rows[x].GAME_DATE < d}})

\* team_pts["team_pts_avg_5"] of the (TEAM_ID, GAME_DATE) group (k, d).
TeamPtsAvg5(rows, k, d) ==
    LET dates == PriorDates(rows, "TEAM_ID", k, d)
    IN  RollingMean([i \in 1 .. Len(dates) |->
                        SumPts(rows, GroupOf(rows, "TEAM_ID", k, dates[i]))], 5, 3)

\* opp["opp_def_rating"] of the (OPP_TEAM_ID, GAME_DATE) group (k, d).
OppDefRating(rows, k, d) ==
    LET dates == PriorDates(rows, "OPP_TEAM_ID", k, d)
    IN  RollingMean([i \in 1 .. Len(dates) |->
                        SumPts(rows, GroupOf(rows, "OPP_TEAM_ID", k, dates[i]))
                          \div Cardinality(GroupOf(rows, "OPP_TEAM_ID", k, dates[i]))],
                    5, 3)

\* df = df.merge(team_pts[...], on=["TEAM_ID", "GAME_DATE"], how="left"): the
\* merged column at position p; the merged frame has the index 0 .. n-1.
MergedTeamPts(rows, p) == TeamPtsAvg5(rows, rows[p].TEAM_ID, rows[p].GAME_DATE)

MergedOppDef(rows, p) == OppDefRating(rows, rows[p].OPP_TEAM_ID, rows[p].GAME_DATE)

\* features[col] = df[col]: the assignment aligns on index labels, so the row
\* labelled idx receives the merged frame's row labelled idx, the one at
\* position idx + 1.
AlignedTeamPts(rows, idx) ==
    IF idx + 1 \in 1 .. Len(rows) THEN MergedTeamPts(rows, idx + 1) ELSE NaN

AlignedOppDef(rows, idx) ==
    IF idx + 1 \in 1 .. Len(rows) THEN MergedOppDef(rows, idx + 1) ELSE NaN

PlayerColumns ==
    {"pts_avg_5", "pts_trend", "min_avg_5", "min_trend", "fga_avg_5", "fga_trend",
     "min_consistency", "usage_avg_5", "rest_days", "is_home", "team_pts_avg_5",
     "opp_def_rating"}

\* The row at position p of the features frame before the final fillna.
RawPlayerRow(rows, p) ==
        [pts_avg_5 |-> StatAvg5(rows, p, "PTS"),
         pts_trend |-> StatTrend(rows, p, "PTS"),
         min_avg_5 |-> StatAvg5(rows, p, "MIN"),
         min_trend |-> StatTrend(rows, p, "MIN"),
         fga_avg_5 |-> StatAvg5(rows, p, "FGA"),
         fga_trend |-> StatTrend(rows, p, "FGA"),
         min_consistency |-> MinConsistency(rows, p),
         usage_avg_5 |-> UsageAvg5(rows, p),
         rest_days |-> RestDays(rows, p),
         is_home |-> IsHome(rows[p]),
         team_pts_avg_5 |-> AlignedTeamPts(rows, rows[p].idx),
         opp_def_rating |-> AlignedOppDef(rows, rows[p].idx)]

\* The features frame before the final fillna, by position.
RawPlayerFeatures(rows) == [p \in 1 .. Len(rows) |-> RawPlayerRow(rows, p)]

\* features.fillna(0) on a frame.
FillFrame(frame) ==
    [p \in DOMAIN frame |-> [c \in DOMAIN frame[p] |-> FillNa(frame[p][c])]]

\* create_player_features: the frame after the final features.fillna(0)
create_player_features(rows) == FillFrame(RawPlayerFeatures(rows))

\* ---- predict_player_points (predict_player.py 142-255)

PlayerIds == {201935}

\* The box-score lines of a game of the player, with the days since the
\* player's previous game.
GameLines ==
    {[PTS |-> 10, MIN |-> 19, FGA |-> 8, MATCHUP |-> "vs.", OPP_TEAM_ID |-> 2, gap |-> 1],
     [PTS |-> 24, MIN |-> 39, FGA |-> 18, MATCHUP |-> "@", OPP_TEAM_ID |-> 3, gap |-> 9],
     [PTS |-> 16, MIN |-> 19, FGA |-> 18, MATCHUP |-> "@", OPP_TEAM_ID |-> 2, gap |-> 2]}

\* The date of the i-th game of a season given by its lines.
DateOf(lines, i) == SumSeq([j \in 1 .. i |-> lines[j].gap])

\* The frame get_player returns (services/nba.py 38-63): one row per game, with
\* PLAYER_ID, TEAM_ID and OPP_TEAM_ID added, labelled 0 .. n-1 in the order the
\* game log lists them, newest game first or oldest game first.
GetPlayer(pid, lines, newest_first) ==
    [i \in 1 .. Len(lines) |->
        LET g == IF newest_first THEN Len(lines) + 1 - i ELSE i
        IN  [idx |-> i - 1, PLAYER_ID |-> pid, TEAM_ID |-> 1,
             OPP_TEAM_ID |-> lines[g].OPP_TEAM_ID, GAME_DATE |-> DateOf(lines, g),
             PTS |-> lines[g].PTS, MIN |-> lines[g].MIN, FGA |-> lines[g].FGA,
             MATCHUP |-> lines[g].MATCHUP]]

\* The feature-name lists a saved player model may carry: columns the frame
\* has, or a list with a name the frame does not have.
PlayerFeatureLists ==
    {{"pts_avg_5", "pts_trend", "usage_avg_5", "team_pts_avg_5", "opp_def_rating"},
     {"pts_avg_5", "team_pts_avg_5", "legacy_feature"}}

PredictPlayerKey(pid) == <<"predict_player", Today, pid>>

PlayerError(msg) == [kind |-> "error", error |-> msg]

\* history.sort_values(["PLAYER_ID", "GAME_DATE"]) and the filter on the player.
PlayerHist(frame, pid) ==
    SortByDate({frame[i] : i \in {j \in DOMAIN frame : frame[j].PLAYER_ID = pid}})

\* Lines 199-200: create_player_features(player_hist), then fillna(0).
PredictFeatures(hist) == FillFrame(create_player_features(hist))

\* valid = ~features.isna().any(axis=1): the positions of the valid rows.
ValidRows(features) ==
    {p \in DOMAIN features : \A c \in DOMAIN features[p] : features[p][c] # NaN}

\* valid_features.tail(1)
Latest(features) ==
    features[CHOOSE p \in ValidRows(features) : \A q \in ValidRows(features) : q <= p]

\* Lines 224-229: the missing features set to 0, and the columns in the order
\* of PLAYER_FEATURE_NAMES.
ModelInput(latest, names) ==
    [f \in names |-> IF f \in MissingFeatures(names, DOMAIN latest)
                     THEN Num(0) ELSE latest[f]]

\* The record predict_player_points builds; predicted_points stands for
\* round(player_model.predict(X)[0], 1) and is held as the X it was computed from.
PlayerPoints(pid, n, X) ==
    [kind |-> "points", player_id |-> pid, predicted_points |-> X, games_played |-> n]

\* Lines 190-194: the record of a player with n < 3 games.
InsufficientHistory(n) ==
    [kind |-> "error", error |-> "Insufficient game history", games_played |-> n]

\* Lines 159-196: the error the call ends with before it builds features, or
\* None.
EarlyError(pid, frame, load_error, raises) ==
    IF load_error THEN PlayerError("Missing or empty model file")
    ELSE IF raises THEN PlayerError("Prediction failed")
    ELSE IF frame = <<>> THEN PlayerError("No player data available")
    ELSE IF \A i \in DOMAIN frame : frame[i].PLAYER_ID # pid
         THEN PlayerError("Player ID not found in database")
    ELSE IF Cardinality({i \in DOMAIN frame : frame[i].PLAYER_ID = pid}) < 3
         THEN InsufficientHistory(
                 Cardinality({i \in DOMAIN frame : frame[i].PLAYER_ID = pid}))
    ELSE None

\* Lines 203-247: the result computed from the features frame.
ResultFrom(pid, features, names) ==
    IF ValidRows(features) = {}
    THEN PlayerError("Could not create valid features")
    ELSE PlayerPoints(pid, Len(features), ModelInput(Latest(features), names))

\* A mutant of PlayerTTL: errors are cached as long as predictions.
PlayerTTLUniform(result) == PREDICTION_TTL_SECONDS

PlayerTTL(result) ==
    IF result.kind = "points" THEN PREDICTION_TTL_SECONDS
    ELSE PREDICTION_ERROR_TTL_SECONDS

\* No run of the expensive path yet, and the record of a run that ended at
\* time now with the given result.
NoRuns == [run_at |-> <<>>, result |-> None, runs |-> 0]
RunAt(now, result) == [run_at |-> <<now>>, result |-> result, runs |-> p_hist.runs + 1]

playerCacheRest == <<disk, save_pending, clock, ret, last_set, n_sets, serveVars,
                     batchVars, featVars, calcVars>>

\* Lines 153-156: the cache check.
PlayerCacheCheck ==
    /\ p_pc = "start"
    /\ PredCacheGet(PredictPlayerKey(p_player))
    /\ LET cached == CacheGetValue(PredCache, PredictPlayerKey(p_player), clock)
       IN  IF cached # None
           THEN p_result' = cached /\ p_pc' = "done"
           ELSE p_pc' = "load" /\ UNCHANGED p_result
    /\ UNCHANGED <<p_player, p_frame, PLAYER_FEATURE_NAMES, p_features, p_hist,
                   playerCacheRest>>

\* Lines 158-200, and the except of 249-255: the assets and the history are
\* loaded and the features built; an error record is cached and returned.
PlayerBuildFeatures(load_error, raises) ==
    /\ p_pc = "load"
    /\ LET early == EarlyError(p_player, p_frame, load_error, raises)
       IN  IF early # None
           THEN /\ PredCacheSet(PredictPlayerKey(p_player), early, PlayerTTL(early))
                /\ p_result' = early
                /\ p_hist' = RunAt(clock, early)
                /\ p_pc' = "done"
                /\ UNCHANGED p_features
           ELSE /\ p_features' = PredictFeatures(PlayerHist(p_frame, p_player))
                /\ p_pc' = "predict"
                /\ UNCHANGED <<p_result, p_hist, memory_caches, dirty_caches>>
    /\ UNCHANGED <<p_player, p_frame, PLAYER_FEATURE_NAMES, playerCacheRest>>

\* Lines 203-255: the validity check, the model call and the cached result.
PlayerPredict(raises) ==
    /\ p_pc = "predict"
    /\ LET result == IF raises THEN PlayerError("Prediction failed")
                     ELSE ResultFrom(p_player, p_features, PLAYER_FEATURE_NAMES)
       IN  /\ PredCacheSet(PredictPlayerKey(p_player), result, PlayerTTL(result))
           /\ p_result' = result
           /\ p_hist' = RunAt(clock, result)
    /\ p_pc' = "done"
    /\ UNCHANGED <<p_player, p_frame, PLAYER_FEATURE_NAMES, p_features, playerCacheRest>>

\* The next call for the same player on the same day.
PlayerCallAgain ==
    /\ p_pc = "done"
    /\ p_pc' = "start"
    /\ p_result' = None
    /\ p_features' = <<>>
    /\ UNCHANGED <<p_player, p_frame, PLAYER_FEATURE_NAMES, p_hist, cacheVars, serveVars,
                   batchVars, featVars, calcVars>>

InitPlayer ==
    /\ CacheAtRest
    /\ IdleServe
    /\ IdleBatch
    /\ IdleFeat
    /\ IdleCalc
    /\ p_player \in PlayerIds
    /\ \E n \in 0 .. MaxGames :
         \E lines \in [1 .. n -> GameLines], newest_first \in BOOLEAN :
            p_frame = GetPlayer(p_player, lines, newest_first)
    /\ PLAYER_FEATURE_NAMES \in PlayerFeatureLists
    /\ p_pc = "start"
    /\ p_features = <<>>
    /\ p_result = None
    /\ p_hist = NoRuns

NextPlayer ==
    \/ PlayerCacheCheck
    \/ \E load_error, raises \in BOOLEAN : PlayerBuildFeatures(load_error, raises)
    \/ \E raises \in BOOLEAN : PlayerPredict(raises)
    \/ PlayerCallAgain

SpecPlayer == InitPlayer /\ [][NextPlayer]_vars

\* ---- predict_player_points called again as time passes (same day)

\* The longest wait, in half error-TTLs.
MaxWaits == 3

\* time.time() moves on by half the error TTL; date.today() stays the same.
PlayerTimePasses ==
    /\ clock < MaxWaits * (PREDICTION_ERROR_TTL_SECONDS \div 2)
    /\ clock' = clock + PREDICTION_ERROR_TTL_SECONDS \div 2
    /\ UNCHANGED <<memory_caches, dirty_caches, disk, save_pending, ret, last_set, n_sets,
                   serveVars, batchVars, playerVars, featVars, calcVars>>

NextPlayerRetry ==
    \/ NextPlayer
    \/ PlayerTimePasses

SpecPlayerRetry == InitPlayer /\ [][NextPlayerRetry]_vars

\* The history the features of the current call were built from.
BuiltFrom == PlayerHist(p_frame, p_player)

\* C4: in every prediction path, when the model's expected feature names are
\* not a subset of the columns the assembler produced, the prediction fails
\* with an error and no missing feature is filled with a default value.  Here:
\* a player prediction computed from a frame that lacks an expected feature
\* ends with an error record.
C4_MismatchHardFails ==
    (/\ p_pc = "done"
     /\ p_features # <<>>
     /\ MissingFeatures(PLAYER_FEATURE_NAMES, PlayerColumns) # {})
        => p_result.kind = "error"

\* C6: every feature of a row of create_player_features, the merged
\* team_pts_avg_5 and opp_def_rating included, is the value computed for that
\* row's own (entity, game date), whatever the row index of the history.
C6_RowsGetOwnValues ==
    \A p \in DOMAIN p_features :
        /\ p_features[p].team_pts_avg_5 =
              FillNa(TeamPtsAvg5(BuiltFrom, BuiltFrom[p].TEAM_ID, BuiltFrom[p].GAME_DATE))
        /\ p_features[p].opp_def_rating =
              FillNa(OppDefRating(BuiltFrom, BuiltFrom[p].OPP_TEAM_ID,
                                  BuiltFrom[p].GAME_DATE))

\* C9: a history row whose rolling-window features are undefined for lack of
\* prior games is excluded from model input; an undefined value is never
\* replaced by zero and passed to the model.  Here: when the player model was
\* called, every expected feature of the row it was given was defined.
C9_UndefinedNeverPredicted ==
    (p_pc = "done" /\ p_features # <<>> /\ p_result.kind = "points") =>
        \A f \in PLAYER_FEATURE_NAMES \cap PlayerColumns :
            RawPlayerRow(BuiltFrom, Len(BuiltFrom))[f] # NaN

-----------------------------------------------------------------------------
(***************************************************************************)
(* feature_engineering.py: compute_elo_ratings and create_features         *)
(***************************************************************************)

\* Bound of the feature model: the number of games of the longest history.
MaxMatches == 5

\* Defaults of compute_elo_ratings.
k_factor == 20
home_advantage == 100
initial_elo == 1500

\* stats, and the windows of the rolling columns (the model carries two of
\* the nine stats; the others are computed in the same way).
Stats == {"PTS", "FG_PCT"}
Windows == {3, 5, 10}
Teams == {1, 2, 3}

\* A frame holds PTS as a whole number and FG_PCT in hundredths; a cell of
\* a feature column holds the value in units of 1/Scale.
StatUnit(stat) == IF stat = "FG_PCT" THEN Scale \div 100 ELSE Scale

\* Column names: f"{stat.lower()}_avg_{window}" is <<"pts", "avg", 3>>, a plain
\* name such as "elo" is <<"elo", "", 0>>.
Lower(stat) == IF stat = "PTS" THEN "pts" ELSE "fg_pct"
Simple(name) == <<name, "", 0>>

\* ---- rolling windows over cells (NaN observations are skipped)

Valid(cells) == SelectSeq(cells, LAMBDA c : c # NaN)

\* The numbers of a sequence of cells without NaN.
Numbers(cells) == [i \in 1 .. Len(cells) |-> cells[i][1]]

\* x.shift(1).rolling(w, min_periods=mp).mean() at a row whose earlier cells
\* are cells.
RollMean(cells, w, mp) ==
    LET obs == Valid(LastN(cells, w))
    IN  IF Len(obs) < mp THEN NaN ELSE Num(SumSeq(Numbers(obs)) \div Len(obs))

\* x.shift(1).expanding(min_periods=mp).mean()
ExpandingMean(cells, mp) ==
    LET obs == Valid(cells)
    IN  IF Len(obs) < mp THEN NaN ELSE Num(SumSeq(Numbers(obs)) \div Len(obs))

\* x.shift(1).rolling(w, min_periods=mp).std() over whole numbers: the cell
\* holds the sample variance, the square of the standard deviation.
RollStd(cells, w, mp) ==
    LET obs == Valid(LastN(cells, w))
    IN  IF Len(obs) < mp THEN NaN ELSE RollingStd(Numbers(obs), w, mp)

\* a * b where a is a whole number; NaN if either is.
Times(a, b) == IF a = NaN \/ b = NaN THEN NaN ELSE Num((a[1] \div Scale) * b[1])

\* a / (b + eps), clipped: held as the pair it is computed from.
Ratio(a, b) == IF a = NaN \/ b = NaN THEN NaN ELSE <<a[1], b[1]>>

\* A boolean series .astype(int)
AsInt(b) == Num(IF b THEN Scale ELSE 0)

\* ---- the frame

\* df.groupby("GAME_ID"): the rows of a game, in frame order.
GameRows(df, g) == SelectSeq(df, LAMBDA r : r.GAME_ID = g)

\* df.groupby("TEAM_ID"), shift(1): the rows of row p's team before it,
\* including row p itself (a mutant of TeamPrior).
TeamPriorWithCurrent(df, p) ==
    SelectSeq(SubSeq(df, 1, p), LAMBDA r : r.TEAM_ID = df[p].TEAM_ID)

\* df.groupby("TEAM_ID"), shift(1): the rows of row p's team before it, in
\* frame order.
TeamPrior(df, p) ==
    SelectSeq(SubSeq(df, 1, p - 1), LAMBDA r : r.TEAM_ID = df[p].TEAM_ID)

\* _opp_pts (lines 109-111) of a row: the other row's PTS, or NaN if the game
\* does not have exactly two rows.
OppPts(df, r) ==
    LET rows == GameRows(df, r.GAME_ID)
    IN  IF Len(rows) = 2
        THEN Num(IF rows[1].idx = r.idx THEN rows[2].PTS ELSE rows[1].PTS)
        ELSE NaN

\* _point_diff = df["PTS"] - _opp_pts
PointDiff(df, r) == Minus(Num(r.PTS), OppPts(df, r))

\* A cell in units of 1/Scale from a whole-number cell.
Scaled(c) == IF c = NaN THEN NaN ELSE Num(c[1] * Scale)

\* A mutant of Streak: the counter is not reset when the run of results turns.
RECURSIVE StreakNoReset(_)
StreakNoReset(wls) ==
    IF wls = <<>> THEN 0
    ELSE LET current_streak == StreakNoReset(SubSeq(wls, 1, Len(wls) - 1))
         IN  IF wls[Len(wls)] = "W" THEN current_streak + 1 ELSE current_streak - 1

\* calculate_streak (lines 221-234) after the results wls.
RECURSIVE Streak(_)
Streak(wls) ==
    IF wls = <<>> THEN 0
    ELSE LET current_streak == Streak(SubSeq(wls, 1, Len(wls) - 1))
         IN  IF wls[Len(wls)] = "W" THEN Max(current_streak, 0) + 1
             ELSE Min(current_streak, 0) - 1

\* x.map({"W": 1, "L": 0})
WinCells(rs) ==
    [i \in 1 .. Len(rs) |->
        IF rs[i].WL = "W" THEN Num(Scale) ELSE IF rs[i].WL = "L" THEN Num(0) ELSE NaN]

OwnColumns ==
    {<<Lower(st), "avg", w>> : st \in Stats, w \in Windows}
      \cup {<<"point_diff", "avg", w>> : w \in Windows}
      \cup {<<"pts_allowed", "avg", w>> : w \in Windows}
      \cup {<<Lower(st), "std", 5>> : st \in Stats}
      \cup {<<"point_diff", "std", 5>>}
      \cup {<<"win_pct", "", w>> : w \in Windows}
      \cup {Simple("season_win_pct"), Simple("win_streak"), Simple("rest_days"),
            Simple("is_home"), Simple("elo")}

\* ---- compute_elo_ratings (lines 10-80)

\* 1 / (1 + 10 ** (d / 400)) in units of 1/Scale, at d = -400, -350 .. 400.
LogisticTable ==
    <<91636, 88940, 85581, 81478, 76582, 70901, 64519, 57603, 50400, 43197, 36281,
      29899, 24218, 19322, 15219, 11860, 9164>>

\* exp0 = 1.0 / (1.0 + 10.0 ** ((adj1 - adj0) / 400.0)): fixed point, from the
\* difference in whole points by linear interpolation in the table.
ExpectedScore(adj0, adj1) ==
    LET d == Clip((adj1 - adj0) \div Scale, -400, 399)
        i == (d + 400) \div 50 + 1
        lo == (i - 1) * 50 - 400
    IN  LogisticTable[i] + ((LogisticTable[i + 1] - LogisticTable[i]) * (d - lo)) \div 50

\* game_data (lines 28-43): one record per GAME_ID with exactly two rows.
GameData(df) ==
    {[game_id |-> g,
      date    |-> GameRows(df, g)[1].GAME_DATE,
      season  |-> GameRows(df, g)[1].SEASON,
      idx0    |-> GameRows(df, g)[1].idx,
      idx1    |-> GameRows(df, g)[2].idx,
      team0   |-> GameRows(df, g)[1].TEAM_ID,
      team1   |-> GameRows(df, g)[2].TEAM_ID,
      wl0     |-> GameRows(df, g)[1].WL,
      home0   |-> GameRows(df, g)[1].MATCHUP = "vs."] :
        g \in {x \in {df[p].GAME_ID : p \in DOMAIN df} : Len(GameRows(df, x)) = 2}}

\* game_df = pd.DataFrame(game_data).sort_values("date")
RECURSIVE SortGames(_)
SortGames(games) ==
    IF games = {} THEN <<>>
    ELSE LET first == CHOOSE g \in games : \A h \in games : g.date <= h.date
         IN  <<first>> \o SortGames(games \ {first})

\* elo_ratings.setdefault(t, initial_elo)
SetDefault(ratings, t) ==
    IF t \in DOMAIN ratings THEN ratings ELSE Put(ratings, t, initial_elo * Scale)

\* Ratings are floats: a result is held with MantissaBits significant bits, so
\* above 2^MantissaBits units neighbouring values are more than one unit apart.
MantissaBits == 24

\* The distance between neighbouring floats at magnitude x >= 0.
RECURSIVE Spacing(_)
Spacing(x) == IF x < 2 ^ MantissaBits THEN 1 ELSE 2 * Spacing(x \div 2)

\* The float nearest to x >= 0, ties to the even neighbour.
Fl(x) ==
    LET s == Spacing(x)
        q == x \div s
        r == x % s
    IN  IF 2 * r < s THEN q * s
        ELSE IF 2 * r > s THEN (q + 1) * s
        ELSE IF q % 2 = 0 THEN q * s ELSE (q + 1) * s

\* A mutant of Regress: the regression is applied twice.
RegressTwice(ratings) ==
    [t \in DOMAIN ratings |->
        Fl((3 * Fl((3 * ratings[t] + initial_elo * Scale) \div 4)
              + initial_elo * Scale) \div 4)]

\* elo * 0.75 + initial_elo * 0.25 for every tracked team (lines 55-57).
Regress(ratings) ==
    [t \in DOMAIN ratings |-> Fl((3 * ratings[t] + initial_elo * Scale) \div 4)]

\* A mutant of SeasonChanged: the previous label must be non-empty as well.
SeasonChangedBothLabelled(prev_season, cur_season) ==
    /\ prev_season # <<>>
    /\ prev_season # <<"">>
    /\ cur_season # ""
    /\ <<cur_season>> # prev_season

\* prev_season is not None and cur_season != "" and cur_season != prev_season
\* (line 55).  prev_season is <<>> for None.
SeasonChanged(prev_season, cur_season) ==
    /\ prev_season # <<>>
    /\ cur_season # ""
    /\ <<cur_season>> # prev_season

\* A mutant of UpdatedRatings: the second team's rating is not updated.
UpdatedFirstOnly(r0, r1, g, k, ha) ==
    LET adj0 == r0 + (IF g.home0 THEN ha * Scale ELSE 0)
        adj1 == r1 + (IF g.home0 THEN 0 ELSE ha * Scale)
        exp0 == ExpectedScore(adj0, adj1)
        score0 == IF g.wl0 = "W" THEN Scale ELSE 0
    IN  <<Fl(r0 + k * (score0 - exp0)), r1>>

\* A mutant of UpdatedRatings: the second team's expected score is computed
\* on its own, without the home-court adjustment.
UpdatedSeparately(r0, r1, g, k, ha) ==
    LET adj0 == r0 + (IF g.home0 THEN ha * Scale ELSE 0)
        adj1 == r1 + (IF g.home0 THEN 0 ELSE ha * Scale)
        exp0 == ExpectedScore(adj0, adj1)
        exp1 == ExpectedScore(r1, r0)
        score0 == IF g.wl0 = "W" THEN Scale ELSE 0
    IN  <<Fl(r0 + k * (score0 - exp0)), Fl(r1 + k * ((Scale - score0) - exp1))>>

\* Lines 68-78: the ratings of team0 and team1 after the game, from their
\* ratings r0, r1 before it.
UpdatedRatings(r0, r1, g, k, ha) ==
    LET adj0 == r0 + (IF g.home0 THEN ha * Scale ELSE 0)
        adj1 == r1 + (IF g.home0 THEN 0 ELSE ha * Scale)
        exp0 == ExpectedScore(adj0, adj1)
        score0 == IF g.wl0 = "W" THEN Scale ELSE 0
    IN  <<Fl(r0 + k * (score0 - exp0)),
          Fl(r1 + k * ((Scale - score0) - (Scale - exp0)))>>

\* One iteration of the loop of lines 51-78 with the parameters k_factor = k
\* and home_advantage = ha.
EloStepWith(st, g, k, ha) ==
    LET regressed == IF SeasonChanged(st.prev_season, g.season)
                     THEN Regress(st.elo_ratings) ELSE st.elo_ratings
        ratings == SetDefault(SetDefault(regressed, g.team0), g.team1)
        updated == UpdatedRatings(ratings[g.team0], ratings[g.team1], g, k, ha)
    IN  [elo_ratings |->
            [t \in DOMAIN ratings |->
                IF t = g.team0 THEN updated[1]
                ELSE IF t = g.team1 THEN updated[2]
                ELSE ratings[t]],
         pre_game_elos |-> Put(Put(st.pre_game_elos, g.idx0, ratings[g.team0]),
                               g.idx1, ratings[g.team1]),
         prev_season |-> <<g.season>>]

\* One iteration of the loop with the default parameters.
EloStep(st, g) == EloStepWith(st, g, k_factor, home_advantage)

\* The loop over the first k games.
RECURSIVE EloLoop(_, _)
EloLoop(games, k) ==
    IF k = 0 THEN [elo_ratings |-> <<>>, pre_game_elos |-> <<>>, prev_season |-> <<>>]
    ELSE EloStep(EloLoop(games, k - 1), games[k])

\* compute_elo_ratings: the pre-game Elo by index label.
compute_elo_ratings(df) ==
    LET games == SortGames(GameData(df))
        pre == EloLoop(games, Len(games)).pre_game_elos
    IN  [l \in {df[p].idx : p \in DOMAIN df} |->
            IF games = <<>> THEN Num(initial_elo * Scale)
            ELSE IF l \in DOMAIN pre THEN Num(pre[l]) ELSE NaN]

\* ---- create_features: the series computed from df (lines 141-253)

\* The rows of row p's team and season before it (the SEASON column exists).
SeasonPrior(df, p) == SelectSeq(TeamPrior(df, p), LAMBDA r : r.SEASON = df[p].SEASON)

StatCells(rs, stat) == [i \in 1 .. Len(rs) |-> Num(rs[i][stat] * StatUnit(stat))]
RawCells(rs, stat) == [i \in 1 .. Len(rs) |-> Num(rs[i][stat])]
PointDiffCells(df, rs) == [i \in 1 .. Len(rs) |-> PointDiff(df, rs[i])]
OppPtsCells(df, rs) == [i \in 1 .. Len(rs) |-> OppPts(df, rs[i])]
ScaledCells(cells) == [i \in 1 .. Len(cells) |-> Scaled(cells[i])]

Upper(name) == IF name = "pts" THEN "PTS" ELSE "FG_PCT"

\* features["rest_days"] (lines 243-245)
TeamRestDays(df, p) ==
    LET pr == TeamPrior(df, p)
    IN  IF pr = <<>> THEN Num(3 * Scale)
        ELSE Num(Clip(df[p].GAME_DATE - pr[Len(pr)].GAME_DATE, 0, 7) * Scale)

\* The cell of column c that the groupby / transform series holds for row p.
OwnCell(df, p, c) ==
    LET pr == TeamPrior(df, p)
    IN  CASE c[2] = "avg" /\ c[1] = "point_diff" ->
                RollMean(ScaledCells(PointDiffCells(df, pr)), c[3], 2)
          [] c[2] = "avg" /\ c[1] = "pts_allowed" ->
                RollMean(ScaledCells(OppPtsCells(df, pr)), c[3], 2)
          [] c[2] = "avg" /\ c[1] \in {"pts", "fg_pct"} ->
                RollMean(StatCells(pr, Upper(c[1])), c[3], 2)
          [] c[2] = "std" /\ c[1] = "point_diff" ->
                RollStd(PointDiffCells(df, pr), 5, 3)
          [] c[2] = "std" /\ c[1] \in {"pts", "fg_pct"} ->
                RollStd(RawCells(pr, Upper(c[1])), 5, 3)
          [] c[1] = "win_pct" -> RollMean(WinCells(pr), c[3], 2)
          [] c[1] = "season_win_pct" -> ExpandingMean(WinCells(SeasonPrior(df, p)), 1)
          [] c[1] = "win_streak" ->
                Num(Streak([i \in 1 .. Len(pr) |-> pr[i].WL]) * Scale)
          [] c[1] = "rest_days" -> TeamRestDays(df, p)
          [] c[1] = "is_home" -> AsInt(df[p].MATCHUP = "vs.")

\* The series of lines 141-253, by index label.
OwnSeries(df) ==
    LET elo == compute_elo_ratings(df)
    IN  [l \in {df[p].idx : p \in DOMAIN df} |->
            LET p == CHOOSE q \in DOMAIN df : df[q].idx = l
            IN  [c \in OwnColumns |->
                    IF c = Simple("elo") THEN elo[l] ELSE OwnCell(df, p, c)]]

\* ---- create_features: the features frame (lines 98-136, 169-176, 247-384)

InjuryColumns ==
    {Simple("injury_pts_lost"), Simple("injury_min_lost"), Simple("num_players_out"),
     Simple("injury_impact_score")}

\* The columns of features when opponent_features is built (GAME_ID and
\* TEAM_ID, dropped at the end, left out).
PreColumns ==
    OwnColumns \cup InjuryColumns
      \cup {<<Lower(st), "trend", 0>> : st \in Stats}
      \cup {<<Lower(st), "cv", 5>> : st \in Stats}
      \cup {Simple("net_rating_trend"), Simple("is_back_to_back"), Simple("well_rested")}

DiffColumns ==
    {<<Lower(st), "diff", w>> : st \in Stats, w \in Windows}
      \cup {<<"win_pct", "diff", w>> : w \in Windows}
      \cup {<<"point_diff", "diff", w>> : w \in Windows}
      \cup {<<"def_matchup", "", w>> : w \in Windows}
      \cup {Simple("elo_diff")}

OpponentColumns ==
    {Simple("opp_elo"), Simple("opp_win_pct_5"), Simple("opp_pts_avg_5"),
     Simple("opp_point_diff_avg_5"), Simple("opp_injury_pts_lost"),
     Simple("opp_injury_min_lost"), Simple("opp_num_players_out"),
     Simple("opp_injury_impact_score")}

DerivedColumns ==
    DiffColumns \cup OpponentColumns
      \cup {Simple("home_strength"), Simple("rest_advantage"),
            Simple("home_rest_interaction"), Simple("elo_home_interaction"),
            Simple("momentum"), Simple("scoring_momentum"), Simple("net_momentum"),
            Simple("injury_pts_diff"), Simple("injury_rest_interaction"),
            Simple("home_injury_advantage"), Simple("injury_scoring_impact"),
            Simple("injury_age"), Simple("opp_injury_pts_diff"),
            Simple("key_injury_penalty"), Simple("health_advantage")}

\* The column of B that an opp_ column of A shows.
OwnOf(c) ==
    CASE c = Simple("opp_elo") -> Simple("elo")
      [] c = Simple("opp_win_pct_5") -> <<"win_pct", "", 5>>
      [] c = Simple("opp_pts_avg_5") -> <<"pts", "avg", 5>>
      [] c = Simple("opp_point_diff_avg_5") -> <<"point_diff", "avg", 5>>
      [] c = Simple("opp_injury_pts_lost") -> Simple("injury_pts_lost")
      [] c = Simple("opp_injury_min_lost") -> Simple("injury_min_lost")
      [] c = Simple("opp_num_players_out") -> Simple("num_players_out")
      [] c = Simple("opp_injury_impact_score") -> Simple("injury_impact_score")

\* The index of features: df.index, or 0 .. n-1 after features.merge(injuries_df).
FeaturesIndex(df, injuries) ==
    [p \in DOMAIN df |-> IF injuries = None THEN df[p].idx ELSE p - 1]

\* Lines 117-136: an injury column of the row at position p.  The merge is on
\* the GAME_ID and TEAM_ID that were copied by position.
InjuryCell(df, injuries, p, c) ==
    IF injuries = None THEN Num(0)
    ELSE LET found == {r \in injuries.rows :
                          r.GAME_ID = df[p].GAME_ID /\ r.TEAM_ID = df[p].TEAM_ID}
         IN  IF found = {} THEN FillNa(NaN)
             ELSE Num((CHOOSE r \in found : TRUE)[c[1]] * Scale)

\* features[col] = <series>: the cell the row labelled l receives.
Aligned(own, l, c) == IF l \in DOMAIN own THEN own[l][c] ELSE NaN

\* The row at position p of features when opponent_features is built.
PreRow(df, injuries, own, p) ==
    LET l == FeaturesIndex(df, injuries)[p]
    IN  [c \in PreColumns |->
            CASE c \in OwnColumns -> Aligned(own, l, c)
              [] c \in InjuryColumns -> InjuryCell(df, injuries, p, c)
              [] c[2] = "trend" ->
                    Minus(Aligned(own, l, <<c[1], "avg", 3>>),
                          Aligned(own, l, <<c[1], "avg", 10>>))
              [] c[2] = "cv" ->
                    Ratio(Aligned(own, l, <<c[1], "std", 5>>),
                          Aligned(own, l, <<c[1], "avg", 5>>))
              [] c = Simple("net_rating_trend") ->
                    Minus(Aligned(own, l, <<"point_diff", "avg", 3>>),
                          Aligned(own, l, <<"point_diff", "avg", 10>>))
              [] c = Simple("is_back_to_back") ->
                    AsInt(Aligned(own, l, Simple("rest_days")) = Num(Scale))
              [] c = Simple("well_rested") ->
                    AsInt(Aligned(own, l, Simple("rest_days")) # NaN
                          /\ Aligned(own, l, Simple("rest_days"))[1] >= 3 * Scale)]

\* game_groups (line 274) for the row of df labelled l, looked up by its
\* neighbour in the frame (a mutant of Partner: rows rebuilt in GAME_ID order).
PartnerByPosition(df, l) ==
    LET p == CHOOSE q \in DOMAIN df : df[q].idx = l
        n == IF p % 2 = 1 THEN p + 1 ELSE p - 1
    IN  IF n \in DOMAIN df /\ Len(GameRows(df, df[p].GAME_ID)) = 2
        THEN <<df[n].idx>> ELSE <<>>

\* game_groups (line 274) for the row of df labelled l: the label of the other
\* row of its game, if the game has exactly two rows.
Partner(df, l) ==
    LET p == CHOOSE q \in DOMAIN df : df[q].idx = l
        rows == GameRows(df, df[p].GAME_ID)
    IN  IF Len(rows) = 2
        THEN <<IF rows[1].idx = l THEN rows[2].idx ELSE rows[1].idx>>
        ELSE <<>>

\* Lines 275-281 raise KeyError when .loc is given a label of df that the index
\* of features does not have.
RaisesKeyError(df, injuries) ==
    \E p \in DOMAIN df :
        \A q \in DOMAIN df : FeaturesIndex(df, injuries)[q] # df[p].idx

NaNRow == [c \in PreColumns |-> NaN]

\* opponent_features.loc[l] for the label l at position p of features.
OpponentRow(df, injuries, pre, p) ==
    LET index == FeaturesIndex(df, injuries)
        l == index[p]
    IN  IF (\E q \in DOMAIN df : df[q].idx = l) /\ Partner(df, l) # <<>>
        THEN pre[CHOOSE q \in DOMAIN index : index[q] = Partner(df, l)[1]]
        ELSE NaNRow

\* Lines 286-377: a derived column from the row f of features and the row o of
\* opponent_features.
DerivedCell(f, o, c) ==
    CASE c[2] = "diff" /\ c[1] \in {"pts", "fg_pct"} ->
            Minus(f[<<c[1], "avg", c[3]>>], o[<<c[1], "avg", c[3]>>])
      [] c[2] = "diff" /\ c[1] = "win_pct" ->
            Minus(f[<<"win_pct", "", c[3]>>], o[<<"win_pct", "", c[3]>>])
      [] c[2] = "diff" /\ c[1] = "point_diff" ->
            Minus(f[<<"point_diff", "avg", c[3]>>], o[<<"point_diff", "avg", c[3]>>])
      [] c[1] = "def_matchup" ->
            Minus(o[<<"pts_allowed", "avg", c[3]>>], f[<<"pts_allowed", "avg", c[3]>>])
      [] c \in OpponentColumns -> o[OwnOf(c)]
      [] c = Simple("elo_diff") -> Minus(f[Simple("elo")], o[Simple("elo")])
      [] c = Simple("home_strength") -> Times(f[Simple("is_home")], f[<<"pts", "avg", 5>>])
      [] c = Simple("rest_advantage") ->
            Minus(f[Simple("rest_days")], o[Simple("rest_days")])
      [] c = Simple("home_rest_interaction") ->
            Times(f[Simple("is_home")], f[Simple("well_rested")])
      [] c = Simple("elo_home_interaction") ->
            Times(f[Simple("is_home")], Minus(f[Simple("elo")], o[Simple("elo")]))
      [] c = Simple("momentum") ->
            Minus(f[<<"win_pct", "", 3>>], f[<<"win_pct", "", 10>>])
      [] c = Simple("scoring_momentum") ->
            Minus(f[<<"pts", "avg", 3>>], f[<<"pts", "avg", 10>>])
      [] c = Simple("net_momentum") ->
            Minus(f[<<"point_diff", "avg", 3>>], f[<<"point_diff", "avg", 10>>])
      [] c = Simple("injury_pts_diff") ->
            Minus(f[Simple("injury_pts_lost")], o[Simple("injury_pts_lost")])
      [] c = Simple("injury_rest_interaction") ->
            Times(f[Simple("rest_days")], f[Simple("injury_min_lost")])
      [] c = Simple("home_injury_advantage") ->
            Times(f[Simple("is_home")],
                  Minus(f[Simple("injury_pts_lost")], o[Simple("injury_pts_lost")]))
      [] c = Simple("injury_scoring_impact") ->
            IF f[Simple("injury_pts_lost")] = Num(0) /\ f[<<"pts", "avg", 5>>] # NaN
            THEN Num(0)
            ELSE Ratio(f[Simple("injury_pts_lost")], f[<<"pts", "avg", 5>>])
      [] c = Simple("injury_age") ->
            Times(f[Simple("rest_days")], f[Simple("injury_impact_score")])
      [] c = Simple("opp_injury_pts_diff") ->
            Minus(o[Simple("injury_pts_lost")], f[Simple("injury_pts_lost")])
      [] c = Simple("key_injury_penalty") ->
            Times(AsInt(f[Simple("num_players_out")] # NaN
                        /\ f[Simple("num_players_out")][1] > Scale),
                  f[Simple("injury_impact_score")])
      [] c = Simple("health_advantage") ->
            Minus(o[Simple("injury_impact_score")], f[Simple("injury_impact_score")])

\* The frame create_features returns, from the series own: its index and its
\* rows by position; or the KeyError it raises.
FeaturesFrame(df, injuries, own) ==
    IF RaisesKeyError(df, injuries) THEN [kind |-> "KeyError"]
    ELSE LET pre == [p \in DOMAIN df |-> PreRow(df, injuries, own, p)]
         IN  [kind |-> "frame",
              index |-> FeaturesIndex(df, injuries),
              rows |-> [p \in DOMAIN df |->
                          LET o == OpponentRow(df, injuries, pre, p)
                          IN  [c \in PreColumns \cup DerivedColumns |->
                                  IF c \in PreColumns THEN pre[p][c]
                                  ELSE DerivedCell(pre[p], o, c)]]]

\* ---- the histories create_features is called with

\* The box scores of a game: the home team wins or the away team wins.
Outcomes == {"home_win", "away_win"}

\* The home and the away team of the i-th game of the history.
Schedule == <<<<1, 2>>, <<2, 1>>, <<1, 3>>, <<1, 2>>, <<2, 1>>, <<1, 2>>, <<3, 1>>>>

\* The day of the i-th game: the gaps between games grow from one day on.
MatchDate(i) == 1 + (i * (i - 1)) \div 2

\* The SEASON tag get_all_games adds (services/nba.py 164).
SeasonOf(i) == IF i <= 3 THEN "2024-25" ELSE "2025-26"

\* The row of a side (0 home, 1 away) of game i.
GameRow(i, side, outcome) ==
    LET won == (side = 0) = (outcome = "home_win")
    IN  [GAME_ID |-> i, GAME_DATE |-> MatchDate(i), SEASON |-> SeasonOf(i),
         TEAM_ID |-> Schedule[i][side + 1],
         MATCHUP |-> IF side = 0 THEN "vs." ELSE "@",
         WL |-> IF won THEN "W" ELSE "L",
         PTS |-> IF outcome = "home_win" THEN (IF side = 0 THEN 110 ELSE 100)
                 ELSE (IF side = 0 THEN 95 ELSE 105),
         FG_PCT |-> IF won THEN 50 ELSE 45]

\* The orders of the rows of a frame: sorted by team and date (predict.py 98),
\* by date and game (services/nba.py 183), or newest first.
OrderKey(order, i, side) ==
    CASE order = "team_date" -> Schedule[i][side + 1] * 1000 + MatchDate(i)
      [] order = "date_game" -> MatchDate(i) * 10 + side
      [] order = "newest_first" -> 0 - (MatchDate(i) * 10 + side)

RECURSIVE SortSides(_, _)
SortSides(sides, order) ==
    IF sides = {} THEN <<>>
    ELSE LET first == CHOOSE x \in sides : \A y \in sides :
                          OrderKey(order, x[1], x[2]) <= OrderKey(order, y[1], y[2])
         IN  <<first>> \o SortSides(sides \ {first}, order)

\* The index labels of a frame: 0 .. n-1 in frame order ("range"), the labels
\* of the concatenated game logs ("concat"), or the labels of the tail of a
\* longer frame ("slice").
LabelOf(labels, n, p, i, side) ==
    CASE labels = "range" -> p - 1
      [] labels = "concat" -> 2 * (i - 1) + side
      [] labels = "slice" -> n + p - 1

\* The frames: the production layout first; the last one lacks the away row of
\* game 2.
Layouts ==
    {[order |-> "team_date", labels |-> "concat", drop |-> 0],
     [order |-> "team_date", labels |-> "range", drop |-> 0],
     [order |-> "date_game", labels |-> "concat", drop |-> 0],
     [order |-> "newest_first", labels |-> "range", drop |-> 0],
     [order |-> "team_date", labels |-> "slice", drop |-> 0],
     [order |-> "team_date", labels |-> "range", drop |-> 2]}

\* The history frame of the games with the given outcomes.
History(outcomes, layout) ==
    LET sides == {x \in (DOMAIN outcomes) \X {0, 1} : ~(x[1] = layout.drop /\ x[2] = 1)}
        sorted == SortSides(sides, layout.order)
    IN  [p \in DOMAIN sorted |->
            [idx |-> LabelOf(layout.labels, Len(sorted), p, sorted[p][1], sorted[p][2])]
              @@ GameRow(sorted[p][1], sorted[p][2], outcomes[sorted[p][1]])]

\* The history with the outcome and the box score of game m changed.
Mutated(df, m) ==
    [p \in DOMAIN df |->
        IF df[p].GAME_ID # m THEN df[p]
        ELSE LET side == IF df[p].MATCHUP = "vs." THEN 0 ELSE 1
                 outcome == IF (side = 0) = (df[p].WL = "W") THEN "away_win"
                            ELSE "home_win"
             IN  [idx |-> df[p].idx] @@ GameRow(m, side, outcome)]

\* All-zero injury records, one per (GAME_ID, TEAM_ID) of the history.
ZeroInjuries(df) ==
    [kind |-> "frame",
     rows |-> {[GAME_ID |-> df[p].GAME_ID, TEAM_ID |-> df[p].TEAM_ID,
                injury_pts_lost |-> 0, injury_min_lost |-> 0, num_players_out |-> 0,
                injury_impact_score |-> 0] : p \in DOMAIN df}]

featRest == <<cacheVars, serveVars, batchVars, playerVars, calcVars>>

\* create_features, lines 98-253: the series computed from df.
CreateFeaturesSeries ==
    /\ f_pc = "start"
    /\ f_own' = OwnSeries(f_df)
    /\ f_pc' = "assemble"
    /\ UNCHANGED <<f_df, f_injuries, f_out, f_first, f_change, featRest>>

\* create_features, the assignments to features and lines 271-384.
CreateFeaturesFrame ==
    /\ f_pc = "assemble"
    /\ f_out' = FeaturesFrame(f_df, f_injuries, f_own)
    /\ f_pc' = "done"
    /\ UNCHANGED <<f_df, f_injuries, f_own, f_first, f_change, featRest>>

\* A second call on the same history, with all-zero injury records.
CallWithZeroInjuries ==
    /\ f_pc = "done"
    /\ f_first = None
    /\ f_first' = [df |-> f_df, out |-> f_out]
    /\ f_injuries' = ZeroInjuries(f_df)
    /\ f_change' = [kind |-> "injuries"]
    /\ f_pc' = "start"
    /\ f_own' = <<>>
    /\ f_out' = None
    /\ UNCHANGED <<f_df, featRest>>

\* A second call on the history with game m changed.
CallWithMutatedGame(m) ==
    /\ f_pc = "done"
    /\ f_first = None
    /\ \E p \in DOMAIN f_df : f_df[p].GAME_ID = m
    /\ f_first' = [df |-> f_df, out |-> f_out]
    /\ f_df' = Mutated(f_df, m)
    /\ f_change' = [kind |-> "mutate", game |-> m]
    /\ f_pc' = "start"
    /\ f_own' = <<>>
    /\ f_out' = None
    /\ UNCHANGED <<f_injuries, featRest>>

InitFeat ==
    /\ CacheAtRest
    /\ IdleServe
    /\ IdleBatch
    /\ IdlePlayer
    /\ IdleCalc
    /\ \E n \in 0 .. MaxMatches :
         \E outcomes \in [1 .. n -> Outcomes], layout \in Layouts :
            f_df = History(outcomes, layout)
    /\ f_injuries = None
    /\ f_pc = "start"
    /\ f_own = <<>>
    /\ f_out = None
    /\ f_first = None
    /\ f_change = None

NextFeat ==
    \/ CreateFeaturesSeries
    \/ CreateFeaturesFrame
    \/ CallWithZeroInjuries
    \/ \E m \in 1 .. MaxMatches : CallWithMutatedGame(m)

SpecFeat == InitFeat /\ [][NextFeat]_vars

\* The row of a features frame with index label l.
RowOf(out, l) == out.rows[CHOOSE p \in DOMAIN out.index : out.index[p] = l]

IndexLabels(out) == {out.index[p] : p \in DOMAIN out.index}

\* Within every team the rows of the frame are in date order.
Chronological(df) ==
    \A p, q \in DOMAIN df :
        (p < q /\ df[p].TEAM_ID = df[q].TEAM_ID) => df[p].GAME_DATE < df[q].GAME_DATE

\* The rows of the changed game and of the games before it.
NotAfter(df, m) == {p \in DOMAIN df : df[p].GAME_DATE <= MatchDate(m)}

\* C5: for a chronological history, changing the outcome and the box score of
\* one game leaves every output column of create_features unchanged on that
\* game's own rows and on every row of an earlier game.
C5_NoLeakageTeam ==
    (f_pc = "done" /\ f_change.kind = "mutate" /\ Chronological(f_df)) =>
        \A p \in NotAfter(f_df, f_change.game) :
            RowOf(f_out, f_df[p].idx) = RowOf(f_first.out, f_df[p].idx)

\* A chronological history whose changed game has rows with defined rolling
\* columns and Elo, and a later row that did change.
C5_Witness ==
    /\ f_pc = "done"
    /\ f_change.kind = "mutate"
    /\ Chronological(f_df)
    /\ \E p \in NotAfter(f_df, f_change.game) :
          /\ f_df[p].GAME_ID = f_change.game
          /\ RowOf(f_out, f_df[p].idx)[<<"pts", "std", 5>>] # NaN
          /\ RowOf(f_out, f_df[p].idx)[Simple("elo_diff")] \notin {NaN, Num(0)}
    /\ \E p \in DOMAIN f_df :
          /\ p \notin NotAfter(f_df, f_change.game)
          /\ RowOf(f_out, f_df[p].idx) # RowOf(f_first.out, f_df[p].idx)

\* The negation of a cell.
Neg(c) == IF c = NaN THEN NaN ELSE Num(0 - c[1])

\* The pairs of index labels of the games with exactly two rows.
PairedLabels(df) ==
    {<<df[p].idx, df[q].idx>> : <<p, q>> \in
        {x \in (DOMAIN df) \X (DOMAIN df) :
            /\ x[1] # x[2]
            /\ df[x[1]].GAME_ID = df[x[2]].GAME_ID
            /\ Len(GameRows(df, df[x[1]].GAME_ID)) = 2}}

\* C7: for every game with exactly two rows A and B, in any row order, the
\* opponent columns of A are B's own columns, and every differential column
\* (stat diffs, win_pct_diff, point_diff_diff, def_matchup, elo_diff) of A is
\* the negation of the same column of B.
C7_PairingSymmetry ==
    (f_pc = "done" /\ f_out.kind = "frame") =>
        \A ab \in PairedLabels(f_df) :
            /\ \A c \in OpponentColumns :
                  RowOf(f_out, ab[1])[c] = RowOf(f_out, ab[2])[OwnOf(c)]
            /\ \A c \in DiffColumns :
                  RowOf(f_out, ab[1])[c] = Neg(RowOf(f_out, ab[2])[c])

\* A frame that is not grouped by game, with permuted labels, in which a game
\* has a defined, non-zero differential and a defined opponent column.
C7_Witness ==
    /\ f_pc = "done"
    /\ f_out.kind = "frame"
    /\ \E p \in DOMAIN f_df : f_df[p].idx # p - 1
    /\ \E ab \in PairedLabels(f_df) :
          /\ \E p \in DOMAIN f_df :
                /\ p + 1 \in DOMAIN f_df
                /\ f_df[p].idx = ab[1]
                /\ f_df[p + 1].idx # ab[2]
          /\ RowOf(f_out, ab[1])[<<"pts", "diff", 3>>] \notin {NaN, Num(0)}
          /\ RowOf(f_out, ab[1])[Simple("opp_pts_avg_5")] # NaN

\* C8: create_features(history, None) and create_features(history, all-zero
\* injury records) return the same columns, one row per input row under the
\* input's index labels, with identical cells.
C8_FeatureSetStability ==
    (f_pc = "done" /\ f_change.kind = "injuries") =>
        /\ f_out.kind = "frame"
        /\ IndexLabels(f_out) = IndexLabels(f_first.out)
        /\ \A l \in IndexLabels(f_out) : RowOf(f_out, l) = RowOf(f_first.out, l)

-----------------------------------------------------------------------------
(***************************************************************************)
(* predict.py: the win-probability normalisation of predict_game (144-153) *)
(* and predict_all_games (229-234)                                         *)
(***************************************************************************)

\* Raw model probabilities are fractions <<n, d>> = n/d with d up to MaxDen.
MaxDen == 10

\* predict_proba(...)[0, 1]: a probability in [0, 1].
RawProbs == {f \in (0 .. MaxDen) \X (1 .. MaxDen) : f[1] <= f[2]}

\* total = game_preds[0]["raw_prob"] + game_preds[1]["raw_prob"]
RawTotal(raw) == <<raw[1][1] * raw[2][2] + raw[2][1] * raw[1][2], raw[1][2] * raw[2][2]>>

\* p["raw_prob"] / total as a fraction (total # 0).
RawShare(p, total) == <<p[1] * total[2], p[2] * total[1]>>

\* A mutant of Round3: the third decimal is cut off instead of rounded.
Truncate3(q) == {(1000 * q[1]) \div q[2]}

\* round(x, 3) of the fraction q, in thousandths: the nearest multiple of 0.001.
\* Exactly half way between two multiples the float quotient may lie on either
\* side, so both neighbours are possible.
Round3(q) ==
    LET k == (1000 * q[1]) \div q[2]
        r == (1000 * q[1]) % q[2]
    IN  IF 2 * r < q[2] THEN {k}
        ELSE IF 2 * r > q[2] THEN {k + 1}
        ELSE {k, k + 1}

\* The values p["win_probability"] can take: NaN when total is 0 (a float
\* division 0/0), otherwise the rounded share.
WinProbabilities(p, total) ==
    IF total[1] = 0 THEN {NaN} ELSE {Num(v) : v \in Round3(RawShare(p, total))}

\* for p in game_preds: p["win_probability"] = round(p["raw_prob"] / total, 3)
NormalizeWinProbabilities ==
    /\ raw_prob # <<>>
    /\ win_probability = <<>>
    /\ \E w1 \in WinProbabilities(raw_prob[1], RawTotal(raw_prob)),
          w2 \in WinProbabilities(raw_prob[2], RawTotal(raw_prob)) :
            win_probability' = <<w1, w2>>
    /\ UNCHANGED <<raw_prob, normRest>>

InitNorm ==
    /\ CacheAtRest
    /\ IdleServe
    /\ IdleBatch
    /\ IdlePlayer
    /\ IdleFeat
    /\ IdleElo
    /\ IdleInj
    /\ IdleLate
    /\ raw_prob \in RawProbs \X RawProbs
    /\ win_probability = <<>>

NextNorm == NormalizeWinProbabilities

SpecNorm == InitNorm /\ [][NextNorm]_vars

\* Whether the fraction f equals n/d.
IsFraction(f, n, d) == f[1] * d = n * f[2]

\* Whether thousandths value v is within 0.0005 of the fraction q.
NearestThousandth(v, q) ==
    LET diff == 1000 * q[1] - v * q[2]
    IN  2 * diff <= q[2] /\ 2 * diff >= 0 - q[2]

\* C11: for raw probabilities p_i, p_j with p_i + p_j > 0, each reported win
\* probability is p / (p_i + p_j) rounded to 3 decimals, the two reported values
\* sum to 1 within 0.001, and raw outputs 0.7 and 0.5 give 0.583 and 0.417.
C11_Normalization ==
    (win_probability # <<>> /\ RawTotal(raw_prob)[1] > 0) =>
        /\ \A i \in 1 .. 2 :
              /\ win_probability[i] # NaN
              /\ NearestThousandth(win_probability[i][1],
                                   RawShare(raw_prob[i], RawTotal(raw_prob)))
        /\ win_probability[1][1] + win_probability[2][1] \in 999 .. 1001
        /\ (IsFraction(raw_prob[1], 7, 10) /\ IsFraction(raw_prob[2], 5, 10)) =>
              win_probability = <<Num(583), Num(417)>>

\* Raw outputs 0.7 and 0.5 were normalised to 0.583 and 0.417.
C11_Witness ==
    /\ raw_prob = <<(<<7, 10>>), (<<1, 2>>)>>
    /\ win_probability = <<Num(583), Num(417)>>

-----------------------------------------------------------------------------
(***************************************************************************)
(* services/cache.py: persistence.  The callers of the cache together with *)
(* the flush that _periodic_save (every _SAVE_INTERVAL seconds) and        *)
(* force_save_all (at exit) run.                                           *)
(***************************************************************************)

NextPersist ==
    \/ \E ns \in Namespaces, k \in Keys : cache_get(ns, k)
    \/ \E ns \in Namespaces, k \in Keys, v \in Values, ttl \in TTLs :
          cache_set(ns, k, v, ttl)
    \/ Tick
    \/ save_dirty_caches
    \/ \E ns \in Namespaces, ok \in BOOLEAN : save_cache_to_disk(ns, ok)

SpecPersist == InitCache /\ [][NextPersist]_vars

\* The dict of namespace ns as its next user finds it.
LoadedDict(ns) == GetMemoryCache(ns)[ns]

\* C12: cache_get on an entry past its expires_at removes that entry from the
\* namespace map and returns a miss; no other operation removes an entry, so an
\* expired entry that is never read stays in the map and a flush writes it out
\* with the rest of the map.
C12_LazyExpiration ==
    [][\A ns \in Namespaces :
         LET before == LoadedDict(ns)
             after == IF ns \in DOMAIN memory_caches' THEN memory_caches'[ns] ELSE before
         IN  /\ \A k \in (DOMAIN before) \ (DOMAIN after) :
                   /\ ret' = [op |-> "get", ns |-> ns, key |-> k, value |-> None]
                   /\ Expired(before[k], clock)
             /\ \A k \in DOMAIN before :
                   (ret'.op = "get" /\ ret'.ns = ns /\ ret'.key = k
                      /\ Expired(before[k], clock)) =>
                        (k \notin DOMAIN after /\ ret'.value = None)
             /\ (ret'.op = "save" /\ ret'.ns = ns /\ disk'[ns] # disk[ns]) =>
                   disk'[ns] = File(before)]_vars

\* A flush has just written a namespace whose map still holds an entry that had
\* expired before the flush.
C12_Witness ==
    /\ ret.op = "save"
    /\ ret.ns \in DOMAIN memory_caches
    /\ "k2" \in DOMAIN memory_caches[ret.ns]
    /\ Expired(memory_caches[ret.ns]["k2"], clock)
    /\ disk[ret.ns] = File(memory_caches[ret.ns])

\* C13: cache_set and cache_get never write the namespace file; a file changes
\* only when the flush saves that namespace, and the flush takes only the
\* namespaces that are dirty when it starts.
C13_OnlyFlushWrites ==
    [][/\ (ret'.op \in {"get", "set"}) => disk' = disk
       /\ \A ns \in Namespaces :
             disk'[ns] # disk[ns] =>
                (ret'.op = "save" /\ ret'.ns = ns /\ ns \in save_pending)
       /\ (ret'.op = "flush") => save_pending' \subseteq dirty_caches]_vars

\* A flush has written the file of a dirty namespace while the file of another
\* loaded namespace, which was not dirty, is as it was at start-up.
C13_Witness ==
    /\ ret.op = "save"
    /\ ret.ns = "nba_api_cache.pkl"
    /\ disk[ret.ns].state = "ok"
    /\ PREDICTION_CACHE_PATH \in DOMAIN memory_caches
    /\ disk[PREDICTION_CACHE_PATH].state = "corrupt"

\* What the file of ns holds for the process: what a load of it returns.
Persisted(ns) == LoadCacheFromDisk(ns)

\* C25: whenever a namespace's in-memory map differs from the content last
\* loaded from or written to its file, the namespace is in the dirty set or a
\* flush that took it is in progress, also after a disk write has failed.
C25_NoLostModification ==
    \A ns \in DOMAIN memory_caches :
        memory_caches[ns] # Persisted(ns) => ns \in dirty_caches \cup save_pending

-----------------------------------------------------------------------------
(***************************************************************************)
(* feature_engineering.py: the rating loop of compute_elo_ratings (50-78), *)
(* one game per step, for any k_factor and home_advantage                  *)
(***************************************************************************)

MaxEloGames == 3
MaxK == 2

\* The k_factor and home_advantage arguments: the defaults and others.
EloKs == (1 .. MaxK) \cup {k_factor}
EloHomeAdvantages == {0, home_advantage}

\* r0.get("SEASON", ""): a label, or "" when the row has none.
EloSeasons == {"", "2023-24", "2024-25"}

\* team0 and team1 of a game.
EloPairs == {<<1, 2>>, <<2, 1>>, <<1, 3>>}

\* The i-th record of game_df (sorted by date).
EloGame(i, pair, wl0, home0, season) ==
    [game_id |-> i, date |-> i, season |-> season, idx0 |-> 2 * i - 1, idx1 |-> 2 * i,
     team0 |-> pair[1], team1 |-> pair[2], wl0 |-> wl0, home0 |-> home0]

EloGameChoices == EloPairs \X {"W", "L"} \X BOOLEAN \X EloSeasons

\* Lines 24-25 and 50: the state of the loop before the first game.
EloStart == [elo_ratings |-> <<>>, pre_game_elos |-> <<>>, prev_season |-> <<>>]

\* One iteration of "for _, g in game_df.iterrows()".
EloIterate ==
    /\ e_i < Len(e_games)
    /\ e_prev' = e_state
    /\ e_state' = EloStepWith(e_state, e_games[e_i + 1], e_k, e_ha)
    /\ e_i' = e_i + 1
    /\ UNCHANGED <<e_games, e_k, e_ha, eloRest>>

InitElo ==
    /\ CacheAtRest
    /\ IdleServe
    /\ IdleBatch
    /\ IdlePlayer
    /\ IdleFeat
    /\ IdleNorm
    /\ IdleInj
    /\ IdleLate
    /\ \E n \in 0 .. MaxEloGames :
         \E c \in [1 .. n -> EloGameChoices] :
            e_games = [i \in 1 .. n |-> EloGame(i, c[i][1], c[i][2], c[i][3], c[i][4])]
    /\ e_k \in EloKs
    /\ e_ha \in EloHomeAdvantages
    /\ e_i = 0
    /\ e_state = EloStart
    /\ e_prev = None

NextElo == EloIterate

SpecElo == InitElo /\ [][NextElo]_vars

\* The game processed last and the teams tracked before it.
LastGame == e_games[e_i]
Tracked == DOMAIN e_prev.elo_ratings

\* The rating of team t when the last game's pre-game ratings were recorded.
PreGameOf(t) ==
    IF t = LastGame.team0 THEN e_state.pre_game_elos[LastGame.idx0]
    ELSE IF t = LastGame.team1 THEN e_state.pre_game_elos[LastGame.idx1]
    ELSE e_state.elo_ratings[t]

\* r * 0.75 + 1500 * 0.25
RegressedValue(r) == Fl((3 * r + 1500 * Scale) \div 4)

\* The last game's label differs from the previous game's label and both labels
\* are non-empty.
CrossedBoundary ==
    /\ e_i >= 2
    /\ e_games[e_i - 1].season # ""
    /\ LastGame.season # ""
    /\ LastGame.season # e_games[e_i - 1].season

\* C14: when the game sequence crosses a season boundary, every team already
\* tracked (playing or not) has its rating r replaced by r*0.75 + 1500*0.25
\* exactly once, before the new-season game's pre-game ratings are recorded and
\* before that game's own update.
C14_RegressionEffect ==
    CrossedBoundary =>
        /\ \A t \in Tracked : PreGameOf(t) = RegressedValue(e_prev.elo_ratings[t])
        /\ <<e_state.elo_ratings[LastGame.team0], e_state.elo_ratings[LastGame.team1]>>
             = UpdatedRatings(PreGameOf(LastGame.team0), PreGameOf(LastGame.team1),
                              LastGame, e_k, e_ha)

\* A boundary was crossed while a tracked team with a rating other than 1500 sat
\* out the new-season game, and its rating was regressed.
C14_Witness ==
    /\ CrossedBoundary
    /\ \E t \in Tracked \ {LastGame.team0, LastGame.team1} :
          /\ e_prev.elo_ratings[t] # 1500 * Scale
          /\ e_state.elo_ratings[t] = RegressedValue(e_prev.elo_ratings[t])
          /\ e_state.elo_ratings[t] # e_prev.elo_ratings[t]

\* C15: the regression is applied before a game exactly when that game's season
\* label differs from the previous game's label and both labels are non-empty;
\* in every other case no rating is regressed.
C15_RegressionTrigger ==
    e_i >= 1 =>
        \A t \in Tracked :
            PreGameOf(t) = IF CrossedBoundary
                           THEN RegressedValue(e_prev.elo_ratings[t])
                           ELSE e_prev.elo_ratings[t]

\* C16: for a single game processed with home_advantage = 0, the two teams'
\* rating changes sum to exactly zero, for every k.
C16_ZeroSum ==
    (e_i = 1 /\ e_ha = 0) =>
        (e_state.elo_ratings[LastGame.team0] - PreGameOf(LastGame.team0))
          + (e_state.elo_ratings[LastGame.team1] - PreGameOf(LastGame.team1)) = 0

\* A single game was processed with home_advantage = 0 and a k other than the
\* default, and the winner gained what the loser lost.
C16_Witness ==
    /\ e_i = 1
    /\ e_ha = 0
    /\ e_k # k_factor
    /\ e_state.elo_ratings[LastGame.team0] # PreGameOf(LastGame.team0)
    /\ (e_state.elo_ratings[LastGame.team0] - PreGameOf(LastGame.team0))
          = PreGameOf(LastGame.team1) - e_state.elo_ratings[LastGame.team1]

\* The rating changes of team0 and team1 in the game processed last.
Change0 == e_state.elo_ratings[LastGame.team0] - PreGameOf(LastGame.team0)
Change1 == e_state.elo_ratings[LastGame.team1] - PreGameOf(LastGame.team1)

\* C27 as stated: when home_advantage is not 0, the two teams' rating changes
\* from one game are not exact negatives of each other and their sum is not
\* zero.
C27_EloAsymmetry ==
    (e_i >= 1 /\ e_ha # 0) => Change0 + Change1 # 0

\* C27 amended: for a single game the two teams' rating changes are exact
\* negatives of each other (their sum is zero) also when home_advantage is not
\* 0, whoever is at home and whoever wins.
C27_EloSymmetry ==
    (e_i = 1 /\ e_ha # 0) => (Change0 + Change1 = 0 /\ Change0 # 0)

\* A home win with home_advantage = 100 and the default k: the home team gained
\* less than half of k, and the visitor lost exactly what the home team gained.
C27_Witness ==
    /\ e_i = 1
    /\ e_ha = home_advantage
    /\ e_k = k_factor
    /\ LastGame.home0
    /\ LastGame.wl0 = "W"
    /\ Change0 > 0
    /\ 2 * Change0 < k_factor * Scale
    /\ Change1 = 0 - Change0

-----------------------------------------------------------------------------
(***************************************************************************)
(* feature_engineering.py: the win_streak column (221-238)                 *)
(***************************************************************************)

\* The rows of team t in frame order.
TeamRows(df, t) == SelectSeq(df, LAMBDA r : r.TEAM_ID = t)

\* The teams of a chronological history whose results are W, W, L, W.
StreakExampleTeams ==
    {t \in Teams :
        /\ Chronological(f_df)
        /\ [i \in 1 .. Len(TeamRows(f_df, t)) |-> TeamRows(f_df, t)[i].WL]
             = <<"W", "W", "L", "W">>}

\* The win_streak cells of team t's rows, in whole games.
WinStreaks(t) ==
    [i \in 1 .. Len(TeamRows(f_df, t)) |->
        RowOf(f_out, TeamRows(f_df, t)[i].idx)[Simple("win_streak")][1] \div Scale]

\* C17 as stated: for one team whose chronological results are [W, W, L, W],
\* the win_streak feature on its four rows is [0, 0, 1, -1].
C17_StreakExample ==
    (f_pc = "done" /\ f_out.kind = "frame") =>
        \A t \in StreakExampleTeams : WinStreaks(t) = <<0, 0, 1, -1>>

\* C17 amended: for one team whose chronological results are [W, W, L, W], the
\* win_streak feature on its four rows is [0, 1, 2, -1]: the streak after the
\* games before the row, 0 on the first row.
C17_StreakExampleAmended ==
    (f_pc = "done" /\ f_out.kind = "frame") =>
        \A t \in StreakExampleTeams : WinStreaks(t) = <<0, 1, 2, -1>>

\* create_features returned the frame of a history in which a team's results
\* are W, W, L, W.
C17_Witness ==
    /\ f_pc = "done"
    /\ f_out.kind = "frame"
    /\ \E t \in StreakExampleTeams : WinStreaks(t) = <<0, 1, 2, -1>>

-----------------------------------------------------------------------------
(***************************************************************************)
(* services/injury_features.py: get_player_importance_score and            *)
(* compute_team_injury_scores                                              *)
(***************************************************************************)

\* Importance weights, points lost and minutes lost are held in units of
\* 1/ImpUnit (38 * 25 * 1000, so that minutes/38 and points/25 are whole).
ImpUnit == 950000

InjuryPlayers == <<11, 12, 13>>

\* The per-game MIN and PTS of the players LeagueDashPlayerStats knows.
StatLine == (11 :> [MIN |-> 36, PTS |-> 28]) @@ (12 :> [MIN |-> 16, PTS |-> 4])

\* What get_rotation_players returns: pd.DataFrame() (no columns) after a
\* failed request, else the PLAYER_ID, MIN, PTS rows of the rotation players.
NoColumns == [kind |-> "frame", columns |-> FALSE, rows |-> <<>>]
RotationFrame(ids) ==
    [kind |-> "frame", columns |-> TRUE,
     rows |-> [i \in 1 .. Len(ids) |->
                 [PLAYER_ID |-> ids[i], MIN |-> StatLine[ids[i]].MIN,
                  PTS |-> StatLine[ids[i]].PTS]]]

\* rotation_stats as compute_team_injury_scores passes it: a frame, or None when
\* get_rotation_players raised (lines 76-79).
RotationChoices ==
    {None, NoColumns, RotationFrame(<<>>), RotationFrame(<<11>>), RotationFrame(<<12>>),
     RotationFrame(<<11, 12>>)}

\* rotation_stats[rotation_stats['PLAYER_ID'] == player_id]
PlayerRow(rotation_stats, player_id) ==
    SelectSeq(rotation_stats.rows, LAMBDA r : r.PLAYER_ID = player_id)

\* get_player_importance_score (6-45).  None gives 1.0 (21-22); a frame
\* without a PLAYER_ID column raises KeyError at line 25, which the except of
\* 44-45 turns into 1.0; an unknown player gives 0.5 (27-28).  For a known
\* player, minutes and points are Python floats (30-31), a float has no clip
\* method, so line 34 raises AttributeError and the except returns 1.0.
get_player_importance_score(player_id, rotation_stats) ==
    IF rotation_stats = None THEN ImpUnit
    ELSE IF ~rotation_stats.columns THEN ImpUnit
    ELSE IF PlayerRow(rotation_stats, player_id) = <<>> THEN ImpUnit \div 2
    ELSE ImpUnit

\* A mutant of IsOut: every listed status counts.
IsListed(status) == status \in {"Out", "Day-to-day", "Doubtful"}

\* status == "Out" (line 89)
IsOut(status) == status = "Out"

\* injury_list (82-97): one record per report entry that is out.
InjuryList(report, rotation_stats) ==
    LET outs == SelectSeq(report, LAMBDA e : IsOut(e.STATUS))
    IN  [i \in 1 .. Len(outs) |->
            [TEAM_ID |-> outs[i].TEAM_ID, PLAYER_ID |-> outs[i].PLAYER_ID,
             importance |-> get_player_importance_score(outs[i].PLAYER_ID, rotation_stats),
             is_out |-> 1]]

\* injury_agg (99-132) for one team: NaN cells if the team has no record in
\* injury_list (the left merge of 136-140 finds no row for it).
InjuryAgg(list, t) ==
    LET mine == SelectSeq(list, LAMBDA e : e.TEAM_ID = t)
        injury_importance_sum == SumSeq([i \in 1 .. Len(mine) |-> mine[i].importance])
    IN  IF mine = <<>>
        THEN [injury_pts_lost |-> NaN, injury_min_lost |-> NaN, num_players_out |-> NaN,
              injury_impact_score |-> NaN]
        ELSE [injury_pts_lost |-> Num(injury_importance_sum * 10),
              injury_min_lost |-> Num(injury_importance_sum * 12),
              num_players_out |-> Num(SumSeq([i \in 1 .. Len(mine) |-> mine[i].is_out])),
              injury_impact_score |-> Num(injury_importance_sum)]

\* The games frame df: GAME_ID and TEAM_ID of each row.
InjuryGames ==
    <<[GAME_ID |-> 1, TEAM_ID |-> 1], [GAME_ID |-> 1, TEAM_ID |-> 2],
      [GAME_ID |-> 2, TEAM_ID |-> 3], [GAME_ID |-> 2, TEAM_ID |-> 1]>>

\* The result frame (134-148): the merge on TEAM_ID followed by fillna(0).
InjuryResult(df, list) ==
    [p \in DOMAIN df |->
        LET agg == InjuryAgg(list, df[p].TEAM_ID)
        IN  [GAME_ID |-> df[p].GAME_ID, TEAM_ID |-> df[p].TEAM_ID,
             injury_pts_lost |-> FillNa(agg.injury_pts_lost),
             injury_min_lost |-> FillNa(agg.injury_min_lost),
             num_players_out |-> FillNa(agg.num_players_out),
             injury_impact_score |-> FillNa(agg.injury_impact_score)]]

\* compute_team_injury_scores(df).  An empty report (or a fetch that raised,
\* 58-62) returns the all-zero frame of 65-73, which is what the merge gives
\* for an empty injury_list.
compute_team_injury_scores ==
    /\ i_pc = "start"
    /\ i_list' = IF i_report = <<>> THEN <<>> ELSE InjuryList(i_report, i_rotation)
    /\ i_result' = InjuryResult(InjuryGames, i_list')
    /\ i_pc' = "done"
    /\ UNCHANGED <<i_report, i_rotation, i_call, injRest>>

\* A direct call get_player_importance_score(player_id, rotation_stats).
ImportanceCall(player_id, rotation_stats) ==
    /\ i_pc = "start"
    /\ i_call = None
    /\ i_call' = [player_id |-> player_id, rotation_stats |-> rotation_stats,
                  result |-> get_player_importance_score(player_id, rotation_stats)]
    /\ UNCHANGED <<i_report, i_rotation, i_pc, i_list, i_result, injRest>>

\* The statuses fetch_espn_injuries extracts (a sample), and the teams.
InjuryStatuses == {"Out", "Day-to-day", "Doubtful"}
ReportTeams == {1, 2}

\* The report with the entries f gives the players; <<0, "">> for no entry.
ReportOf(f) ==
    LET present == SelectSeq(InjuryPlayers, LAMBDA q : f[q] # <<0, "">>)
    IN  [i \in 1 .. Len(present) |->
            [TEAM_ID |-> f[present[i]][1], PLAYER_ID |-> present[i],
             STATUS |-> f[present[i]][2]]]

InitInj ==
    /\ CacheAtRest
    /\ IdleServe
    /\ IdleBatch
    /\ IdlePlayer
    /\ IdleFeat
    /\ IdleNorm
    /\ IdleElo
    /\ IdleLate
    /\ \E f \in [{11, 12, 13} -> (ReportTeams \X InjuryStatuses) \cup {<<0, "">>}] :
          i_report = ReportOf(f)
    /\ i_rotation \in RotationChoices
    /\ i_pc = "start"
    /\ i_list = <<>>
    /\ i_result = None
    /\ i_call = None

NextInj ==
    \/ compute_team_injury_scores
    \/ \E player_id \in {11, 12, 13}, rotation_stats \in RotationChoices :
          ImportanceCall(player_id, rotation_stats)

SpecInj == InitInj /\ [][NextInj]_vars

\* The report entries of team t whose status is exactly "Out".
OutEntries(t) ==
    {p \in DOMAIN i_report : i_report[p].TEAM_ID = t /\ i_report[p].STATUS = "Out"}

\* The sum of the importance weights of a set of report entries.
RECURSIVE WeightSum(_)
WeightSum(ps) ==
    IF ps = {} THEN 0
    ELSE LET p == CHOOSE x \in ps : TRUE
         IN  get_player_importance_score(i_report[p].PLAYER_ID, i_rotation)
               + WeightSum(ps \ {p})

\* C18: for every team, only report entries whose status is exactly "Out"
\* count; impact_score is the sum of their importance weights, points_lost is
\* impact_score * 10, minutes_lost is impact_score * 12, num_players_out is
\* their count; a team with no "Out" entry or absent from the report gets four
\* zeros, and no field is undefined or negative.
C18_InjuryImpactRecord ==
    i_pc = "done" =>
        \A p \in DOMAIN i_result :
            LET row == i_result[p]
                outs == OutEntries(row.TEAM_ID)
            IN  /\ row.injury_impact_score = Num(WeightSum(outs))
                /\ row.injury_pts_lost = Num(10 * WeightSum(outs))
                /\ row.injury_min_lost = Num(12 * WeightSum(outs))
                /\ row.num_players_out = Num(Cardinality(outs))
                /\ outs = {} =>
                      /\ row.injury_impact_score = Num(0)
                      /\ row.injury_pts_lost = Num(0)
                      /\ row.injury_min_lost = Num(0)
                      /\ row.num_players_out = Num(0)
                /\ \A c \in {row.injury_impact_score, row.injury_pts_lost,
                             row.injury_min_lost, row.num_players_out} :
                      c # NaN /\ c[1] >= 0

\* A report in which team 1 has two players out and one listed but not out,
\* team 2 has only a listed player and team 3 has no entry.
C18_Witness ==
    /\ i_pc = "done"
    /\ Cardinality(OutEntries(1)) = 2
    /\ \E p \in DOMAIN i_report : i_report[p].TEAM_ID = 1 /\ i_report[p].STATUS # "Out"
    /\ i_result[1].num_players_out = Num(2)
    /\ i_result[1].injury_impact_score[1] > 0
    /\ i_result[3].injury_impact_score = Num(0)

\* 0.6 * clip(m/38, 0.1, 1.5) + 0.4 * clip(p/25, 0.1, 1.5), clipped to
\* [0.2, 2.0], in units of 1/ImpUnit.
WeightFormula(m, p) ==
    Clip(1500 * Clip(10 * m, 38, 570) + 1520 * Clip(10 * p, 25, 375),
         ImpUnit \div 5, 2 * ImpUnit)

\* C19: for a player found in the rotation stats with per-game minutes m and
\* points p, get_player_importance_score returns the weight formula; for a
\* player not found in non-empty rotation stats it returns 0.5; when no
\* rotation stats are available at all it returns 1.0.
C19_ImportanceWeight ==
    i_call # None =>
        LET stats == i_call.rotation_stats
            found == IF stats = None \/ stats = NoColumns THEN <<>>
                     ELSE PlayerRow(stats, i_call.player_id)
        IN  /\ (stats = None \/ stats = NoColumns) => i_call.result = ImpUnit
            /\ (stats # None /\ stats # NoColumns /\ stats.rows # <<>> /\ found = <<>>) =>
                  i_call.result = ImpUnit \div 2
            /\ found # <<>> => i_call.result = WeightFormula(found[1].MIN, found[1].PTS)

\* ---- Failed player predictions (predict_player.py 153-196, 249-255)

\* The last run of the expensive path ended in an error record.
LastRunFailed == p_hist.result # None /\ p_hist.result.kind = "error"

\* When the record of the last run expires.
LastRunExpiry == p_hist.run_at[1] + PREDICTION_ERROR_TTL_SECONDS

\* The error records predict_player_points builds.
IsErrorRecord(r) ==
    /\ r.kind = "error"
    /\ r.error \in {"Missing or empty model file", "No player data available",
                    "Player ID not found in database", "Insufficient game history",
                    "Could not create valid features", "Prediction failed"}
    /\ r.error = "Insufficient game history" =>
          r.games_played = Cardinality({i \in DOMAIN p_frame :
                                          p_frame[i].PLAYER_ID = p_player})

-----------------------------------------------------------------------------
(***************************************************************************)
(* predict.py 89-93, 176-180 and predict_player.py 153-156: the cache check *)
(* that opens every prediction function, across a change of date           *)
(***************************************************************************)

\* The number of clock steps of the section.
MaxDayTicks == 4

\* date.today().isoformat() on the day after Today.
Tomorrow == "2026-01-16"

\* The process is observed from one all-games TTL before midnight, in steps of
\* one error TTL.
SecondsToMidnight == ALL_GAMES_PRED_TTL_SECONDS
DayTick == PREDICTION_ERROR_TTL_SECONDS

\* date.today().isoformat() at time now.
DateAt(now) == IF now < SecondsToMidnight THEN Today ELSE Tomorrow

\* The prediction functions and the ids a call passes.
DayFunctions == {"predict_game", "predict_all_games", "predict_player"}
DayIds(fn) ==
    IF fn = "predict_game" THEN {<<"g1", 1>>, <<"g1", 2>>}
    ELSE IF fn = "predict_all_games" THEN {<<>>}
    ELSE {<<201935>>}

\* A mutant of DayKey: the key leaves the date out.
KeyWithoutDay(fn, day, ids) == <<fn>> \o ids

\* The cache keys of predict.py 90, 177 and predict_player.py 153:
\* f"{function}:{date.today().isoformat()}:{ids}".
DayKey(fn, day, ids) == <<fn, day>> \o ids

\* How a computation ends: with a prediction, with nothing to return (None, or
\* an error record for a player), or with an exception.
DayOutcomes == {"result", "nothing", "raises"}

\* What the function returns and what it caches (value and ttl; <<>> when it
\* caches nothing).  made_on is the date in the key the value is stored under.
DayValue(fn, ids, day, kind) == [kind |-> kind, fn |-> fn, ids |-> ids, made_on |-> day]

DayReturn(fn, ids, day, outcome) ==
    IF outcome = "result" THEN DayValue(fn, ids, day, "prediction")
    ELSE IF fn = "predict_player" THEN DayValue(fn, ids, day, "error")
    ELSE IF fn = "predict_all_games" /\ outcome = "nothing"
         THEN DayValue(fn, ids, day, "empty_list")
    ELSE IF outcome = "nothing" THEN None
    ELSE [kind |-> "raised"]

DayTTL(fn, outcome) ==
    IF fn = "predict_player"
    THEN <<IF outcome = "result" THEN PREDICTION_TTL_SECONDS
           ELSE PREDICTION_ERROR_TTL_SECONDS>>
    ELSE IF fn = "predict_all_games"
    THEN IF outcome = "raises" THEN <<>> ELSE <<ALL_GAMES_PRED_TTL_SECONDS>>
    ELSE IF outcome = "result" THEN <<PREDICTION_TTL_SECONDS>> ELSE <<>>

dayRest == <<disk, save_pending, ret, last_set, n_sets, statefulRest, liveVars,
             threadVars>>

\* The function is called, and called again with the same arguments: cache_key
\* is built from date.today().
DayCall(fn, ids) ==
    /\ \/ d_call.pc = "idle"
       \/ d_call.pc = "done" /\ d_call.fn = fn /\ d_call.ids = ids
    /\ d_call' = [pc |-> "check", fn |-> fn, ids |-> ids, day |-> DateAt(clock),
                  resp |-> None, hit |-> FALSE, fetched |-> FALSE, built |-> FALSE,
                  inferred |-> FALSE, wrote |-> FALSE]
    /\ UNCHANGED <<memory_caches, dirty_caches, clock, dayRest>>

\* cached = cache_get(PREDICTION_CACHE_PATH, cache_key); a hit is returned.
DayCacheCheck ==
    /\ d_call.pc = "check"
    /\ LET k == DayKey(d_call.fn, d_call.day, d_call.ids)
           cached == CacheGetValue(PredCache, k, clock)
       IN  /\ PredCacheGet(k)
           /\ d_call' = IF cached # None
                        THEN [d_call EXCEPT !.pc = "done", !.resp = cached, !.hit = TRUE]
                        ELSE [d_call EXCEPT !.pc = "fetch"]
    /\ UNCHANGED <<clock, dayRest>>

\* The history fetch (get_all_games_cached, get_player).
DayFetch ==
    /\ d_call.pc = "fetch"
    /\ d_call' = [d_call EXCEPT !.pc = "build", !.fetched = TRUE]
    /\ UNCHANGED <<memory_caches, dirty_caches, clock, dayRest>>

\* The feature build (create_features, create_player_features).
DayBuild ==
    /\ d_call.pc = "build"
    /\ d_call' = [d_call EXCEPT !.pc = "infer", !.built = TRUE]
    /\ UNCHANGED <<memory_caches, dirty_caches, clock, dayRest>>

\* Inference, the cache_set under the key built at the start, and the return.
DayInfer(outcome) ==
    /\ d_call.pc = "infer"
    /\ LET k == DayKey(d_call.fn, d_call.day, d_call.ids)
           out == DayReturn(d_call.fn, d_call.ids, d_call.day, outcome)
           ttl == DayTTL(d_call.fn, outcome)
       IN  /\ d_call' = [d_call EXCEPT !.pc = "done", !.resp = out, !.inferred = TRUE,
                                       !.wrote = (ttl # <<>>)]
           /\ IF ttl # <<>>
              THEN PredCacheSet(k, out, ttl[1])
              ELSE UNCHANGED <<memory_caches, dirty_caches>>
    /\ UNCHANGED <<clock, dayRest>>

\* Time passes; at SecondsToMidnight the date changes.
DayTimePasses ==
    /\ clock < MaxDayTicks * DayTick
    /\ clock' = clock + DayTick
    /\ UNCHANGED <<memory_caches, dirty_caches, d_call, dayRest>>

InitDay ==
    /\ CacheAtRest
    /\ IdleServe
    /\ IdleBatch
    /\ IdlePlayer
    /\ IdleFeat
    /\ IdleNorm
    /\ IdleElo
    /\ IdleInj
    /\ IdleLive
    /\ IdleThreads
    /\ d_call = [pc |-> "idle"]

NextDay ==
    \/ \E fn \in DayFunctions : \E ids \in DayIds(fn) : DayCall(fn, ids)
    \/ DayCacheCheck
    \/ DayFetch
    \/ DayBuild
    \/ \E outcome \in DayOutcomes : DayInfer(outcome)
    \/ DayTimePasses

SpecDay == InitDay /\ [][NextDay]_vars

\* C21: predict_game, predict_all_games and predict_player_points look up a key
\* built from today's date and the ids before anything else; on a hit they
\* return the cached value unchanged and do no history fetch, feature build,
\* inference or cache write; a value cached under one day's key is never
\* returned for a request made on another day.
C21_CacheCheckFirst ==
    /\ [](d_call.pc # "idle" =>
            /\ d_call.pc = "check" =>
                  ~(d_call.fetched \/ d_call.built \/ d_call.inferred \/ d_call.wrote)
            /\ d_call.hit =>
                  /\ d_call.pc = "done"
                  /\ ~(d_call.fetched \/ d_call.built \/ d_call.inferred \/ d_call.wrote)
                  /\ d_call.resp.made_on = d_call.day
                  /\ d_call.resp.fn = d_call.fn
                  /\ d_call.resp.ids = d_call.ids)
    /\ [][(d_call.pc = "check" /\ d_call'.pc = "done") =>
             (/\ d_call'.hit
              /\ DayKey(d_call.fn, d_call.day, d_call.ids) \in DOMAIN PredCache
              /\ d_call'.resp = PredCache[DayKey(d_call.fn, d_call.day, d_call.ids)].value
              /\ PredCache' = PredCache
              /\ dirty_caches' = dirty_caches)]_vars

\* A game prediction cached before midnight is still unexpired after midnight;
\* the request made after midnight missed it and computed a new one.
C21_Witness ==
    /\ d_call.pc = "done"
    /\ d_call.fn = "predict_game"
    /\ d_call.day = Tomorrow
    /\ ~d_call.hit
    /\ d_call.inferred
    /\ DayKey("predict_game", Today, d_call.ids) \in DOMAIN PredCache
    /\ ~Expired(PredCache[DayKey("predict_game", Today, d_call.ids)], clock)
    /\ PredCache[DayKey("predict_game", Today, d_call.ids)].value.kind = "prediction"

-----------------------------------------------------------------------------
(***************************************************************************)
(* predict.py 95-153 and 182-234: the history, the features, the latest    *)
(* valid row of each team of today's game, the two models, the             *)
(* normalisation and the total                                             *)
(***************************************************************************)

\* The longest history of a team, and the largest value of its form feature.
MaxRows == 2
MaxForm == 2

LiveTeams == {1, 2, 3}

\* A historical row of a team: the value of its features (one number stands
\* for all of them) and whether every rolling feature of the row is defined.
RowSpecs == (1 .. MaxForm) \X BOOLEAN

\* The rows of team t, oldest first.  The index labels are those of the frame
\* get_all_games built (unique, not in the order of this frame).
RowsOfTeam(t, specs) ==
    [j \in 1 .. Len(specs) |->
        [idx |-> 10 * j + t, TEAM_ID |-> t, GAME_DATE |-> j, GAME_ID |-> <<j, t>>,
         form |-> specs[j][1], complete |-> specs[j][2]]]

\* history.sort_values(["TEAM_ID", "GAME_DATE"])
LiveHistory(specs) ==
    RowsOfTeam(1, specs[1]) \o RowsOfTeam(2, specs[2]) \o RowsOfTeam(3, specs[3])

\* features = create_features(history) (lines 101, 187): the injuries_df
\* parameter keeps its default whatever the current injury report says.
InjuriesPassed(report) == None

\* The frame create_features returns for the history, by index label.
LiveFeatures(history, injuries) ==
    [l \in {history[p].idx : p \in DOMAIN history} |->
        LET p == CHOOSE q \in DOMAIN history : history[q].idx = l
        IN  [form |-> IF history[p].complete THEN Num(history[p].form) ELSE NaN,
             injury_pts_lost |-> InjuryCell(history, injuries, p, Simple("injury_pts_lost")),
             injury_min_lost |-> InjuryCell(history, injuries, p, Simple("injury_min_lost")),
             num_players_out |-> InjuryCell(history, injuries, p, Simple("num_players_out")),
             injury_impact_score |->
                 InjuryCell(history, injuries, p, Simple("injury_impact_score"))]]

\* valid = ~features.isna().any(axis=1); history = history[valid]
LiveValid(history, features) ==
    SelectSeq(history, LAMBDA r : \A c \in DOMAIN features[r.idx] :
                                      features[r.idx][c] # NaN)

\* team_hist = history[history["TEAM_ID"] == t_id].tail(1)
TeamHist(valid_history, t) ==
    LET rs == SelectSeq(valid_history, LAMBDA r : r.TEAM_ID = t)
    IN  IF rs = <<>> THEN <<>> ELSE <<rs[Len(rs)]>>

\* today_df of the game: the home row, then the away row (lines 69-82).
TodayRows(game) ==
    <<[TEAM_ID |-> game[1], is_home |-> TRUE], [TEAM_ID |-> game[2], is_home |-> FALSE]>>

\* A mutant of TeamFeat: the form of the team is taken relative to the form of
\* the team it plays today.
MatchupFeat(valid_history, features, rows, i) ==
    LET own == features[TeamHist(valid_history, rows[i].TEAM_ID)[1].idx]
        opp == TeamHist(valid_history, rows[3 - i].TEAM_ID)
    IN  IF opp = <<>> THEN own
        ELSE [own EXCEPT !.form = Num(Max(1, own.form[1] - features[opp[1].idx].form[1] + 1))]

\* team_feat = features.loc[team_hist.index][FEATURE_NAMES] for row i of today's
\* game.
TeamFeat(valid_history, features, rows, i) ==
    features[TeamHist(valid_history, rows[i].TEAM_ID)[1].idx]

\* win_model.predict_proba(team_feat)[0, 1] as a fraction, and
\* round(points_model.predict(team_feat)[0], 1) in tenths of a point: the models
\* are fixed functions of the feature row.
WinModel(team_feat) ==
    <<2 * team_feat.form[1] - 1 + team_feat.injury_impact_score[1] \div Scale, 2 * MaxForm + 1>>
PointsModel(team_feat) ==
    1000 + 55 * team_feat.form[1] - team_feat.injury_pts_lost[1] \div Scale

\* game_preds (lines 122-142): one record per team of the game that has a valid
\* historical row.
GamePreds(history, features, game) ==
    LET vh == LiveValid(history, features)
        rows == TodayRows(game)
        pred(i) == [team_id |-> rows[i].TEAM_ID, is_home |-> rows[i].is_home,
                    raw_prob |-> WinModel(TeamFeat(vh, features, rows, i)),
                    predicted_points |-> PointsModel(TeamFeat(vh, features, rows, i))]
        has(i) == TeamHist(vh, rows[i].TEAM_ID) # <<>>
    IN  (IF has(1) THEN <<pred(1)>> ELSE <<>>) \o (IF has(2) THEN <<pred(2)>> ELSE <<>>)

liveRest == <<statefulVars, normVars, eloVars, injVars, dayVars, threadVars>>

\* Lines 96-104: the features are built and the invalid rows dropped.
LiveBuildFeatures ==
    /\ l_pc = "start"
    /\ l_features' = LiveFeatures(l_history, InjuriesPassed(l_report))
    /\ l_pc' = "predict"
    /\ UNCHANGED <<l_history, l_report, l_today, l_out, l_first, liveRest>>

\* Lines 114-153: the predictions of the two teams, the normalised
\* probabilities and the total, when both teams have a prediction.
LivePredict ==
    /\ l_pc = "predict"
    /\ LET preds == GamePreds(l_history, l_features, l_today)
       IN  IF Len(preds) # 2
           THEN l_out' = [game_preds |-> preds, win_probability |-> <<>>,
                          total_points |-> NaN]
           ELSE \E w1 \in WinProbabilities(preds[1].raw_prob,
                                            RawTotal(<<preds[1].raw_prob, preds[2].raw_prob>>)),
                   w2 \in WinProbabilities(preds[2].raw_prob,
                                            RawTotal(<<preds[1].raw_prob, preds[2].raw_prob>>)) :
                   l_out' = [game_preds |-> preds, win_probability |-> <<w1, w2>>,
                             total_points |->
                                 Num(preds[1].predicted_points + preds[2].predicted_points)]
    /\ l_pc' = "done"
    /\ UNCHANGED <<l_history, l_report, l_today, l_features, l_first, liveRest>>

\* The same history on a day with another game.
LiveOtherGame(game) ==
    /\ l_pc = "done"
    /\ l_first = None
    /\ game # l_today
    /\ l_first' = [today |-> l_today, out |-> l_out]
    /\ l_today' = game
    /\ l_features' = <<>>
    /\ l_out' = None
    /\ l_pc' = "start"
    /\ UNCHANGED <<l_history, l_report, liveRest>>

\* Today's game: home team, away team.
LiveGames == {<<1, 2>>, <<2, 1>>, <<1, 3>>}

InitLive ==
    /\ CacheAtRest
    /\ IdleServe
    /\ IdleBatch
    /\ IdlePlayer
    /\ IdleFeat
    /\ IdleNorm
    /\ IdleElo
    /\ IdleInj
    /\ IdleDay
    /\ IdleThreads
    /\ \E specs \in [LiveTeams -> UNION {[1 .. n -> RowSpecs] : n \in 0 .. MaxRows}] :
          l_history = LiveHistory(specs)
    /\ l_report \in {[ok |-> FALSE, out |-> {}]}
                      \cup {[ok |-> TRUE, out |-> ts] : ts \in {{}, {1}}}
    /\ l_today \in LiveGames
    /\ l_pc = "start"
    /\ l_features = <<>>
    /\ l_out = None
    /\ l_first = None

NextLive ==
    \/ LiveBuildFeatures
    \/ LivePredict
    \/ \E game \in LiveGames : LiveOtherGame(game)

SpecLive == InitLive /\ [][NextLive]_vars

\* The prediction of team t in a run, as a sequence of at most one record.
PredOf(out, t) == SelectSeq(out.game_preds, LAMBDA p : p.team_id = t)

\* The teams of game.
Playing(game) == {game[1], game[2]}

\* C28: the live prediction path builds its features with the current
\* injury-impact records: the injury features of a team's feature row are all
\* zero only when the injury fetch failed or the report has nobody out for the
\* team.
C28_LiveInjuryContext ==
    l_pc = "done" =>
        \A t \in Playing(l_today) :
            LET th == TeamHist(LiveValid(l_history, l_features), t)
            IN  (/\ th # <<>>
                 /\ l_features[th[1].idx].injury_impact_score = Num(0)
                 /\ l_features[th[1].idx].injury_pts_lost = Num(0)
                 /\ l_features[th[1].idx].injury_min_lost = Num(0)
                 /\ l_features[th[1].idx].num_players_out = Num(0))
                => (~l_report.ok \/ t \notin l_report.out)

\* C30: the raw win probability and the predicted points of a team come from
\* that team's most recent valid historical feature row alone: two runs on the
\* same history in which the team plays different opponents give the same raw
\* probability and the same predicted points for it.
C30_OpponentIndependence ==
    /\ l_pc = "done" =>
          \A t \in Playing(l_today) :
             LET th == TeamHist(LiveValid(l_history, l_features), t)
                 mine == SelectSeq(l_history, LAMBDA r : r.TEAM_ID = t /\ r.complete)
             IN  /\ (th = <<>>) <=> (PredOf(l_out, t) = <<>>)
                 /\ th # <<>> =>
                       /\ th[1] = mine[Len(mine)]
                       /\ PredOf(l_out, t)[1].raw_prob = WinModel(l_features[th[1].idx])
                       /\ PredOf(l_out, t)[1].predicted_points
                             = PointsModel(l_features[th[1].idx])
    /\ (l_pc = "done" /\ l_first # None) =>
          \A t \in Playing(l_today) \cap Playing(l_first.today) :
             /\ Len(PredOf(l_out, t)) = Len(PredOf(l_first.out, t))
             /\ PredOf(l_out, t) # <<>> =>
                   /\ PredOf(l_out, t)[1].raw_prob = PredOf(l_first.out, t)[1].raw_prob
                   /\ PredOf(l_out, t)[1].predicted_points
                         = PredOf(l_first.out, t)[1].predicted_points

\* Team 1 was at home against team 2 in one run and against team 3 in the
\* other: its raw probability and points are the same, its normalised
\* probability and the predicted total are not.
C30_Witness ==
    /\ l_pc = "done"
    /\ l_first # None
    /\ l_first.today = <<1, 2>>
    /\ l_today = <<1, 3>>
    /\ Len(l_out.game_preds) = 2
    /\ Len(l_first.out.game_preds) = 2
    /\ l_out.game_preds[1].raw_prob = l_first.out.game_preds[1].raw_prob
    /\ l_out.game_preds[1].predicted_points = l_first.out.game_preds[1].predicted_points
    /\ l_out.win_probability[1] # l_first.out.win_probability[1]
    /\ l_out.total_points # l_first.out.total_points

-----------------------------------------------------------------------------
(***************************************************************************)
(* services/cache.py, thread by thread.  Request threads run cache_get and *)
(* cache_set; the 30 s timer thread and the atexit hook run                *)
(* _save_dirty_caches.  Every acquisition and release of _global_lock and  *)
(* of a namespace lock is a step of its own, and so are the open, the dump *)
(* and the rename of _save_cache_to_disk.                                  *)
(***************************************************************************)
MaxCalls == 1
MaxCrashes == 1

\* Threads that serve requests, and the threads that flush: the timer (3) and
\* the interpreter running the atexit hook (4).
RequestThreads == {1, 2}
Flushers == {3, 4}
Threads == RequestThreads \cup Flushers

\* The one key the request threads use, the value each of them stores (at time
\* 0, for 1 s), and the times at which cache_get may find the clock.
ThreadKey == "k1"
ThreadValue(th) == IF th = 1 THEN [kind |-> "v1"] ELSE [kind |-> "v2"]
ThreadTimes == {0, 2}

\* temp_path = cache_path + ".tmp"
TempPath(ns) ==
    IF ns = PREDICTION_CACHE_PATH THEN "prediction_cache.pkl.tmp" ELSE "nba_api_cache.pkl.tmp"

Paths == Namespaces \cup {TempPath(ns) : ns \in Namespaces}

\* A mutant of WritePath: the dict is pickled straight into the namespace file.
InPlace(ns) == ns

\* The file _save_cache_to_disk opens for writing.
WritePath(ns) == TempPath(ns)

\* A file that was opened for writing and not written to its end.
PartialFile == [state |-> "partial", data |-> EmptyDict]

\* os.replace(src, dst) on the files d.
Replace(d, src, dst) ==
    IF src = dst THEN d ELSE [d EXCEPT ![dst] = d[src], ![src] = NoFile]

\* A mutant of GetLock: every call makes a lock of its own.
FreshLock(ns, th) == <<ns, th>>

\* _get_lock: the one lock _cache_locks keeps for the path.
GetLock(ns, th) == <<ns>>

\* A mutant of GlobalAfterTake: the saves run inside "with _global_lock".
GlobalKeptForSaves(th) == th

\* _save_dirty_caches leaves "with _global_lock" before it saves (0: free).
GlobalAfterTake(th) == 0

NoOp == [kind |-> "none", ns |-> "", lock |-> <<>>, todo |-> {}]

\* The dict a save pickles: _memory_caches.get(cache_path, {}).
MapOf(ns) == IF ns \in DOMAIN memory_caches THEN memory_caches[ns] ELSE EmptyDict

threadRest == <<save_pending, clock, ret, last_set, n_sets, statefulRest, dayVars,
                liveVars>>

\* A request thread enters cache_get or cache_set.
ThreadCall(th, kind, ns) ==
    /\ th \in RequestThreads
    /\ t_pc[th] = "idle"
    /\ t_done[th] < MaxCalls
    /\ t_op' = [t_op EXCEPT ![th] = [NoOp EXCEPT !.kind = kind, !.ns = ns]]
    /\ t_pc' = [t_pc EXCEPT ![th] = "lock_acq"]
    /\ UNCHANGED <<memory_caches, dirty_caches, disk, t_global, t_held, t_registry,
                   t_done, t_flush, t_crashes, threadRest>>

\* The timer fires, or the atexit hook runs: _save_dirty_caches is entered.
FlushCall(th) ==
    /\ th \in Flushers
    /\ t_pc[th] = "idle"
    /\ t_done[th] < MaxCalls
    /\ t_op' = [t_op EXCEPT ![th] = [NoOp EXCEPT !.kind = "flush"]]
    /\ t_pc' = [t_pc EXCEPT ![th] = "take_acq"]
    /\ UNCHANGED <<memory_caches, dirty_caches, disk, t_global, t_held, t_registry,
                   t_done, t_flush, t_crashes, threadRest>>

\* The places where a thread enters "with _global_lock", and where it is then.
GlobalAcq == {"lock_acq", "mem_acq", "dirty_acq", "take_acq"}
AfterGlobalAcq(pc) ==
    IF pc = "lock_acq" THEN "lock_body"
    ELSE IF pc = "mem_acq" THEN "mem_body"
    ELSE IF pc = "dirty_acq" THEN "dirty_body"
    ELSE "take_body"

\* with _global_lock: the thread gets the lock when it is free.
AcquireGlobal(th) ==
    /\ t_pc[th] \in GlobalAcq
    /\ t_global = 0
    /\ t_global' = th
    /\ t_pc' = [t_pc EXCEPT ![th] = AfterGlobalAcq(t_pc[th])]
    /\ UNCHANGED <<memory_caches, dirty_caches, disk, t_op, t_held, t_registry,
                   t_done, t_flush, t_crashes, threadRest>>

\* _get_lock under the global lock: the path's lock is created if missing.
LockBody(th) ==
    /\ t_pc[th] = "lock_body"
    /\ t_registry' = t_registry \cup {t_op[th].ns}
    /\ t_op' = [t_op EXCEPT ![th].lock = GetLock(t_op[th].ns, th)]
    /\ t_global' = 0
    /\ t_pc' = [t_pc EXCEPT ![th] = "ns_acq"]
    /\ UNCHANGED <<memory_caches, dirty_caches, disk, t_held, t_done, t_flush,
                   t_crashes, threadRest>>

\* with lock: the thread gets the namespace lock when no thread holds it.
AcquireNs(th) ==
    /\ t_pc[th] = "ns_acq"
    /\ \A h \in Threads : <<t_op[th].lock, h>> \notin t_held
    /\ t_held' = t_held \cup {<<t_op[th].lock, th>>}
    /\ t_pc' = [t_pc EXCEPT ![th] = IF t_op[th].kind = "flush" THEN "s_open"
                                    ELSE "mem_acq"]
    /\ UNCHANGED <<memory_caches, dirty_caches, disk, t_op, t_global, t_registry,
                   t_done, t_flush, t_crashes, threadRest>>

\* _get_memory_cache under the global lock.
MemBody(th) ==
    /\ t_pc[th] = "mem_body"
    /\ memory_caches' = GetMemoryCache(t_op[th].ns)
    /\ t_global' = 0
    /\ t_pc' = [t_pc EXCEPT ![th] = "body"]
    /\ UNCHANGED <<dirty_caches, disk, t_op, t_held, t_registry, t_done, t_flush,
                   t_crashes, threadRest>>

\* cache_get between the load and the dirty mark: an expired entry is popped.
GetBody(th, now) ==
    LET ns == t_op[th].ns
        cache == memory_caches[ns]
    IN  /\ t_pc[th] = "body"
        /\ t_op[th].kind = "get"
        /\ memory_caches' = [memory_caches EXCEPT ![ns] = CacheGetDict(cache, ThreadKey, now)]
        /\ t_pc' = [t_pc EXCEPT ![th] = IF CacheGetDirties(cache, ThreadKey, now)
                                        THEN "dirty_acq" ELSE "ns_rel"]
        /\ UNCHANGED <<dirty_caches, disk, t_op, t_global, t_held, t_registry, t_done,
                       t_flush, t_crashes, threadRest>>

\* cache_set between the load and the dirty mark: cache[key] = entry.
SetBody(th) ==
    LET ns == t_op[th].ns
    IN  /\ t_pc[th] = "body"
        /\ t_op[th].kind = "set"
        /\ memory_caches' = [memory_caches EXCEPT ![ns] =
                               CacheSetDict(memory_caches[ns], ThreadKey, ThreadValue(th),
                                            1, 0)]
        /\ t_pc' = [t_pc EXCEPT ![th] = "dirty_acq"]
        /\ UNCHANGED <<dirty_caches, disk, t_op, t_global, t_held, t_registry, t_done,
                       t_flush, t_crashes, threadRest>>

\* with _global_lock: _dirty_caches.add(cache_path)
DirtyBody(th) ==
    /\ t_pc[th] = "dirty_body"
    /\ dirty_caches' = dirty_caches \cup {t_op[th].ns}
    /\ t_global' = 0
    /\ t_pc' = [t_pc EXCEPT ![th] = "ns_rel"]
    /\ UNCHANGED <<memory_caches, disk, t_op, t_held, t_registry, t_done, t_flush,
                   t_crashes, threadRest>>

\* The end of "with lock": a request returns, a flush goes on to its next path.
ReleaseNs(th) ==
    /\ t_pc[th] = "ns_rel"
    /\ t_held' = t_held \ {<<t_op[th].lock, th>>}
    /\ IF t_op[th].kind = "flush"
       THEN /\ t_pc' = [t_pc EXCEPT ![th] = "next"]
            /\ UNCHANGED <<t_op, t_done>>
       ELSE /\ t_pc' = [t_pc EXCEPT ![th] = "idle"]
            /\ t_op' = [t_op EXCEPT ![th] = NoOp]
            /\ t_done' = [t_done EXCEPT ![th] = @ + 1]
    /\ UNCHANGED <<memory_caches, dirty_caches, disk, t_global, t_registry, t_flush,
                   t_crashes, threadRest>>

\* _save_dirty_caches under the global lock: the dirty set is taken and cleared.
TakeBody(th) ==
    /\ t_pc[th] = "take_body"
    /\ t_op' = [t_op EXCEPT ![th].todo = CachesToSave(dirty_caches)]
    /\ dirty_caches' = {}
    /\ t_global' = GlobalAfterTake(th)
    /\ t_pc' = [t_pc EXCEPT ![th] = "next"]
    /\ UNCHANGED <<memory_caches, disk, t_held, t_registry, t_done, t_flush, t_crashes,
                   threadRest>>

\* for cache_path in caches_to_save: the next _save_cache_to_disk, or the end.
FlushNext(th) ==
    /\ t_pc[th] = "next"
    /\ IF t_op[th].todo = {}
       THEN /\ t_pc' = [t_pc EXCEPT ![th] = "idle"]
            /\ t_op' = [t_op EXCEPT ![th] = NoOp]
            /\ t_done' = [t_done EXCEPT ![th] = @ + 1]
            /\ t_global' = IF t_global = th THEN 0 ELSE t_global
       ELSE /\ \E ns \in t_op[th].todo :
                  t_op' = [t_op EXCEPT ![th].ns = ns, ![th].todo = @ \ {ns},
                                       ![th].lock = <<>>]
            /\ t_pc' = [t_pc EXCEPT ![th] = "lock_acq"]
            /\ UNCHANGED <<t_done, t_global>>
    /\ UNCHANGED <<memory_caches, dirty_caches, disk, t_held, t_registry, t_flush,
                   t_crashes, threadRest>>

\* open(temp_path, "wb"): the file is created empty, or the open raises.
SaveOpen(th, ok) ==
    LET ns == t_op[th].ns
    IN  /\ t_pc[th] = "s_open"
        /\ IF ok
           THEN /\ t_flush' = [t_flush EXCEPT ![ns] = [old |-> disk[ns],
                                                       new |-> File(MapOf(ns))]]
                /\ disk' = [disk EXCEPT ![WritePath(ns)] = PartialFile]
                /\ t_pc' = [t_pc EXCEPT ![th] = "s_dump"]
           ELSE /\ t_pc' = [t_pc EXCEPT ![th] = "ns_rel"]
                /\ UNCHANGED <<disk, t_flush>>
        /\ UNCHANGED <<memory_caches, dirty_caches, t_op, t_global, t_held, t_registry,
                       t_done, t_crashes, threadRest>>

\* pickle.dump(cache, f) and the close: the dict is written, or the write raises.
SaveDump(th, ok) ==
    LET ns == t_op[th].ns
    IN  /\ t_pc[th] = "s_dump"
        /\ IF ok
           THEN /\ disk' = [disk EXCEPT ![WritePath(ns)] = File(MapOf(ns))]
                /\ t_flush' = [t_flush EXCEPT ![ns].new = File(MapOf(ns))]
                /\ t_pc' = [t_pc EXCEPT ![th] = "s_replace"]
           ELSE /\ t_pc' = [t_pc EXCEPT ![th] = "ns_rel"]
                /\ UNCHANGED <<disk, t_flush>>
        /\ UNCHANGED <<memory_caches, dirty_caches, t_op, t_global, t_held, t_registry,
                       t_done, t_crashes, threadRest>>

\* os.replace(temp_path, cache_path), or it raises.
SaveReplace(th, ok) ==
    LET ns == t_op[th].ns
    IN  /\ t_pc[th] = "s_replace"
        /\ disk' = IF ok THEN Replace(disk, WritePath(ns), ns) ELSE disk
        /\ t_pc' = [t_pc EXCEPT ![th] = "ns_rel"]
        /\ UNCHANGED <<memory_caches, dirty_caches, t_op, t_global, t_held, t_registry,
                       t_done, t_flush, t_crashes, threadRest>>

\* The process dies at any point and is started again: the files stay, the
\* memory, the locks and the threads' calls are gone.
Crash ==
    /\ t_crashes < MaxCrashes
    /\ t_crashes' = t_crashes + 1
    /\ memory_caches' = EmptyDict
    /\ dirty_caches' = {}
    /\ t_pc' = [th \in Threads |-> "idle"]
    /\ t_op' = [th \in Threads |-> NoOp]
    /\ t_global' = 0
    /\ t_held' = {}
    /\ t_registry' = {}
    /\ UNCHANGED <<disk, t_done, t_flush, threadRest>>

\* One step of thread th.
ThreadStep(th) ==
    \/ \E kind \in {"get", "set"}, ns \in Namespaces : ThreadCall(th, kind, ns)
    \/ FlushCall(th)
    \/ AcquireGlobal(th)
    \/ LockBody(th)
    \/ AcquireNs(th)
    \/ MemBody(th)
    \/ \E now \in ThreadTimes : GetBody(th, now)
    \/ SetBody(th)
    \/ DirtyBody(th)
    \/ ReleaseNs(th)
    \/ TakeBody(th)
    \/ FlushNext(th)
    \/ \E ok \in BOOLEAN : SaveOpen(th, ok)
    \/ \E ok \in BOOLEAN : SaveDump(th, ok)
    \/ \E ok \in BOOLEAN : SaveReplace(th, ok)

InitThreads ==
    /\ IdleServe
    /\ IdleBatch
    /\ IdlePlayer
    /\ IdleFeat
    /\ IdleNorm
    /\ IdleElo
    /\ IdleInj
    /\ IdleDay
    /\ IdleLive
    /\ memory_caches = EmptyDict
    /\ dirty_caches = {}
    /\ disk = [p \in Paths |-> IF p = PREDICTION_CACHE_PATH THEN OldFile ELSE NoFile]
    /\ save_pending = {}
    /\ clock = 0
    /\ ret = NoRet
    /\ last_set = [ns \in Namespaces |-> [k \in Keys |-> NoSet]]
    /\ n_sets = 0
    /\ t_pc = [th \in Threads |-> "idle"]
    /\ t_op = [th \in Threads |-> NoOp]
    /\ t_global = 0
    /\ t_held = {}
    /\ t_registry = {}
    /\ t_done = [th \in Threads |-> 0]
    /\ t_flush = [ns \in Namespaces |-> [old |-> disk[ns], new |-> disk[ns]]]
    /\ t_crashes = 0

NextThreads ==
    \/ \E th \in Threads : ThreadStep(th)
    \/ Crash

SpecThreads == InitThreads /\ [][NextThreads]_vars

\* The positions inside "with lock" of cache_get, cache_set and
\* _save_cache_to_disk, and those that read or change the namespace's dict.
CriticalPcs == {"mem_acq", "mem_body", "body", "dirty_acq", "dirty_body", "ns_rel",
                "s_open", "s_dump", "s_replace"}
MapAccessPcs == {"mem_body", "body", "s_open", "s_dump"}
InCritical(th, ns) == t_pc[th] \in CriticalPcs /\ t_op[th].ns = ns

-----------------------------------------------------------------------------
\* C23: every read or mutation of a namespace's entry map happens while the
\* thread holds that namespace's own lock; no two threads are inside the
\* critical section of the same namespace at once; and no flush serializes a
\* namespace's map while another thread is about to mutate it.
C23_LockDiscipline ==
    /\ \A th \in Threads :
          t_pc[th] \in MapAccessPcs => <<(<<t_op[th].ns>>), th>> \in t_held
    /\ \A ns \in Namespaces :
          Cardinality({th \in Threads : InCritical(th, ns)}) <= 1
    /\ \A f \in Flushers, w \in RequestThreads :
          ~(/\ t_pc[f] \in {"s_open", "s_dump"}
            /\ t_pc[w] = "body"
            /\ t_op[f].ns = t_op[w].ns)

\* A flush is pickling a namespace while a request thread that is to set a key
\* of it waits for that namespace's lock.
C23_Witness ==
    \E f \in Flushers, w \in RequestThreads :
        /\ t_pc[f] = "s_dump"
        /\ t_pc[w] = "ns_acq"
        /\ t_op[w].ns = t_op[f].ns
        /\ t_op[w].kind = "set"
        /\ dirty_caches = {}

-----------------------------------------------------------------------------
\* The thread that holds the lock th is waiting for (0: th is not waiting).
NsHolder(lock) ==
    IF \E h \in Threads : <<lock, h>> \in t_held
    THEN CHOOSE h \in Threads : <<lock, h>> \in t_held
    ELSE 0
Holder(th) ==
    IF t_pc[th] \in GlobalAcq THEN t_global
    ELSE IF t_pc[th] = "ns_acq" THEN NsHolder(t_op[th].lock)
    ELSE 0
Waiting(th) == Holder(th) # 0

\* The namespace locks a thread holds.
HeldBy(th) == {l \in {<<ns>> : ns \in Namespaces} : <<l, th>> \in t_held}

\* C24: no thread waits forever for a lock.  The global lock is only acquired
\* by a thread that holds no lock or one namespace lock; no thread asks for a
\* namespace lock while it holds the global lock; no set of waiting threads
\* waits only for locks held inside the set; and, with every thread scheduled,
\* every thread is again and again not waiting.
C24_DeadlockFree ==
    /\ [](\A th \in Threads :
            /\ t_pc[th] \in GlobalAcq => (t_global # th /\ Cardinality(HeldBy(th)) <= 1)
            /\ t_pc[th] = "ns_acq" => (t_global # th /\ HeldBy(th) = {}))
    /\ [](\A S \in (SUBSET Threads) \ {{}} :
            ~(\A th \in S : Waiting(th) /\ Holder(th) \in S))
    /\ \A th \in Threads : []<>(~Waiting(th))

\* A request thread inside its namespace's section waits for the global lock,
\* which a flush holds, while the other request thread waits for the namespace.
C24_Witness ==
    \E a \in RequestThreads, b \in RequestThreads, f \in Flushers :
        /\ t_pc[a] = "dirty_acq"
        /\ t_global = f
        /\ t_pc[b] = "ns_acq"
        /\ Holder(b) = a

\* The scheduler runs every thread that can take a step.
SpecThreadsFair ==
    InitThreads /\ [][NextThreads]_vars /\ \A th \in Threads : WF_vars(ThreadStep(th))

-----------------------------------------------------------------------------
\* C26: a flush writes a namespace through a temporary file and one rename, so
\* at every instant the namespace's file is complete and is either the file the
\* last flush found or the snapshot that flush pickled; and whenever the
\* process, crashed or not, loads a namespace, it loads one of those two.
C26_CrashConsistent ==
    /\ [](\A ns \in Namespaces :
            /\ disk[ns].state # "partial"
            /\ disk[ns] \in {t_flush[ns].old, t_flush[ns].new})
    /\ [][\A ns \in Namespaces :
            (ns \notin DOMAIN memory_caches /\ ns \in DOMAIN memory_caches') =>
                memory_caches'[ns] \in {t_flush[ns].old.data, t_flush[ns].new.data}]_vars

\* The process crashed while a flush was writing the temporary file of a
\* namespace with a changed dict; the restarted process has loaded the
\* namespace from the file the flush had found.
C26_Witness ==
    \E ns \in Namespaces :
        /\ t_crashes = 1
        /\ disk[TempPath(ns)].state = "partial"
        /\ t_flush[ns].old # t_flush[ns].new
        /\ disk[ns] = t_flush[ns].old
        /\ ns \in DOMAIN memory_caches
        /\ memory_caches[ns] = t_flush[ns].old.data

=============================================================================
